---------------------------- MODULE Spec2Model ----------------------------
(***************************************************************************)
(* The items API of backend/src/routes/items.js: a cache-aside read path   *)
(* (Redis) in front of the items table (PostgreSQL), with invalidation on  *)
(* create, update and delete.  Every request handler is a process whose    *)
(* steps are the handler's await points; the store and the cache are       *)
(* shared by all handlers.  Further on: the auth routes (register, login,  *)
(* refresh, logout) behind authenticateToken, and the process itself: the  *)
(* Redis client, startServer, gracefulShutdown, GET /health and the        *)
(* activeConnections gauge of metricsMiddleware.                           *)
(***************************************************************************)
EXTENDS Integers, Sequences, FiniteSets, TLC

(***************************************************************************)
(* Bounds of the model.                                                    *)
(***************************************************************************)
NumProcs == 2      \* request handlers that may be in flight together
MaxReqs == 3       \* requests issued in one behaviour
WideReqs == 2      \* requests issued, one at a time, under the wide input sets
MaxFaults == 1     \* store or cache calls that fail in one behaviour
MaxId == 3         \* rows the items_id_seq sequence may hand out
NumSeed == 2       \* rows of init.sql's sample INSERT present at start
MaxRegs == 2       \* registrations issued in one behaviour
MaxAuthFaults == 1 \* store calls of registrations that fail in an outage
MaxSessReqs == 3   \* logins, refreshes and logouts issued in one behaviour
MaxConns == 2      \* connections that carry a GET /health request
MaxSignals == 2    \* SIGTERM and SIGINT signals the process receives

Procs == 1..NumProcs

(***************************************************************************)
(* JavaScript / SQL values.  Strings are sequences of one-character        *)
(* strings so that trimming, length checks, parsing and key formatting are *)
(* computed as the code computes them.                                     *)
(***************************************************************************)
\* undefined and null are one-element sequences holding a word, so that they
\* are never equal to a string (every element of a string is one character).
\* A parsed number is <<n>>, and NaN is the empty sequence.
Undefined == <<"undefined">>
Null == <<"null">>
NaN == <<>>

WS == {" "}
DigitChars == <<"0", "1", "2", "3", "4", "5", "6", "7", "8", "9">>
DigitSet == {DigitChars[i] : i \in 1..10}

DigitVal(c) == (CHOOSE i \in 1..10 : DigitChars[i] = c) - 1

Rep(c, n) == [i \in 1..n |-> c]

RECURSIVE LTrim(_)
LTrim(s) == IF s # <<>> /\ Head(s) \in WS THEN LTrim(Tail(s)) ELSE s

RECURSIVE RTrim(_)
RTrim(s) == IF s # <<>> /\ s[Len(s)] \in WS THEN RTrim(SubSeq(s, 1, Len(s) - 1)) ELSE s

\* validator.js trim(): strips leading and trailing whitespace.
Trim(s) == RTrim(LTrim(s))

RECURSIVE DigitPrefix(_)
DigitPrefix(s) == IF s # <<>> /\ Head(s) \in DigitSet THEN <<Head(s)>> \o DigitPrefix(Tail(s)) ELSE <<>>

RECURSIVE DigitsValue(_)
DigitsValue(d) == IF d = <<>> THEN 0 ELSE 10 * DigitsValue(SubSeq(d, 1, Len(d) - 1)) + DigitVal(d[Len(d)])

\* JavaScript parseInt(x): undefined gives NaN; otherwise leading whitespace
\* is skipped, an optional sign is read, then the longest run of digits.
ParseInt(x) ==
  IF x = Undefined THEN NaN
  ELSE LET t == LTrim(x)
           neg == t # <<>> /\ Head(t) = "-"
           u == IF t # <<>> /\ Head(t) \in {"-", "+"} THEN Tail(t) ELSE t
           d == DigitPrefix(u)
       IN IF d = <<>> THEN NaN ELSE IF neg THEN <<0 - DigitsValue(d)>> ELSE <<DigitsValue(d)>>

RECURSIVE NatStr(_)
NatStr(n) == IF n < 10 THEN <<DigitChars[n + 1]>> ELSE NatStr(n \div 10) \o <<DigitChars[(n % 10) + 1]>>

\* Number formatting of a template literal `${n}`.
NumStr(n) == IF n < 0 THEN <<"-">> \o NatStr(0 - n) ELSE NatStr(n)

\* x || dflt for a number x: NaN and 0 are falsy.
OrDefault(x, dflt) == IF x = NaN \/ x = <<0>> THEN dflt ELSE x[1]

Min(a, b) == IF a <= b THEN a ELSE b

Chars_item == <<"i", "t", "e", "m", ":">>
Chars_items == <<"i", "t", "e", "m", "s", ":">>

\* const cacheKey = `items:${limit}:${offset}`
ListKey(limit, offset) == Chars_items \o NumStr(limit) \o <<":">> \o NumStr(offset)

\* const cacheKey = `item:${id}`, id being the path parameter as sent
PointKey(id) == Chars_item \o id

\* Mutant: the pattern 'item*'.
MatchesItemsStar_itemStar(k) == Len(k) >= 4 /\ SubSeq(k, 1, 4) = SubSeq(Chars_item, 1, 4)

\* Redis glob match of the pattern 'items:*': the literal prefix, then anything.
MatchesItemsStar(k) == Len(k) >= Len(Chars_items) /\ SubSeq(k, 1, Len(Chars_items)) = Chars_items

(***************************************************************************)
(* express-validator chains.                                               *)
(***************************************************************************)
MaxNameLen == 255
MaxDescLen == 1000
MinId == 1
\* items.name is VARCHAR(255) NOT NULL: the store rejects anything else.
NameColumnLen == 255
ColumnOk(name) == name # Null /\ Len(name) <= NameColumnLen

\* express-validator hands validators and sanitizers toString(value):
\* undefined becomes the empty string.
ToStr(x) == IF x = Undefined THEN <<>> ELSE x

\* body('name').trim(): the sanitized value replaces req.body.name.
SanitizeName(raw) == Trim(ToStr(raw))

\* Mutant: notEmpty and isLength applied to the value as sent, before trim.
NameValid_beforeTrim(raw) == ToStr(raw) # <<>> /\ Len(ToStr(raw)) <= MaxNameLen

\* body('name').trim().notEmpty().isLength({ max: 255 })
NameValid(raw) == SanitizeName(raw) # <<>> /\ Len(SanitizeName(raw)) <= MaxNameLen

\* body('description').optional().trim(): an undefined field is left alone.
SanitizeDesc(raw) == IF raw = Undefined THEN Undefined ELSE Trim(raw)

\* body('description').optional().trim().isLength({ max: 1000 })
DescValid(raw) == raw = Undefined \/ Len(SanitizeDesc(raw)) <= MaxDescLen

\* validator.js isInt: /^[-+]?[0-9]+$/ (leading zeroes allowed by default).
IsIntString(s) ==
  LET u == IF s # <<>> /\ Head(s) \in {"-", "+"} THEN Tail(s) ELSE s
  IN u # <<>> /\ DigitPrefix(u) = u

\* param('id').isInt({ min: 1 })
IdValid(id) == IsIntString(id) /\ ParseInt(id)[1] >= MinId

\* PostgreSQL reads the text parameter $1 as an integer: '01' is 1.
PgInt(id) == ParseInt(id)[1]

\* node-postgres sends an undefined parameter as NULL.
PgParam(x) == IF x = Undefined THEN Null ELSE x

(***************************************************************************)
(* The items table and its queries.                                        *)
(***************************************************************************)
\* A TIMESTAMP WITH TIME ZONE column, read by node-postgres as a Date.
Date(t) == <<"Date", t>>

Row(id, name, description, t) ==
  [id |-> id, name |-> name, description |-> description,
   created_at |-> Date(t), updated_at |-> Date(t)]

\* The sample rows of init.sql: one INSERT statement, so one CURRENT_TIMESTAMP.
SeedNames == << <<"W">>, <<"D">>, <<"R">>, <<"P">> >>
SeedRows(n) == {Row(i, SeedNames[((i - 1) % 4) + 1], <<"s">>, 0) : i \in 1..n}

\* Date.prototype.toJSON: a Date is serialized as an ISO string; a string
\* that is already one stays as it is.
Iso(d) == IF d[1] = "Date" THEN <<"iso", d[2]>> ELSE d

WireRow(r) == [r EXCEPT !.created_at = Iso(@), !.updated_at = Iso(@)]

WireRows(rows) == [i \in DOMAIN rows |-> WireRow(rows[i])]

\* Mutant: the description is left out of the serialized row.
StringifyRow_noDescription(r) == <<"json", [WireRow(r) EXCEPT !.description = Null]>>

\* JSON.stringify / JSON.parse of a row and of a listing response.
StringifyRow(r) == <<"json", WireRow(r)>>
StringifyPage(resp) == <<"json", [count |-> resp.count, data |-> WireRows(resp.data)]>>
JsonParse(text) == text[2]

\* res.json(obj): what the caller receives.
SendRow(r) == WireRow(r)
SendPage(source, resp) == [source |-> source, count |-> resp.count, data |-> WireRows(resp.data)]

\* SELECT COUNT(*) FROM items: a bigint, which node-postgres reads as a string.
CountAll(S) == NumStr(Cardinality(S))

\* ORDER BY created_at DESC: every order of the rows in which created_at
\* never increases; rows with equal created_at come in any order.
Orders(S) ==
  {f \in [1..Cardinality(S) -> S] :
     /\ \A i, j \in 1..Cardinality(S) : i # j => f[i] # f[j]
     /\ \A i, j \in 1..Cardinality(S) : i < j => f[i].created_at[2] >= f[j].created_at[2]}

\* LIMIT $1 OFFSET $2 of an ordered result; PostgreSQL rejects a negative
\* LIMIT or OFFSET.
PageOk(limit, offset) == limit >= 0 /\ offset >= 0

PageOf(ord, limit, offset) == SubSeq(ord, offset + 1, Min(offset + limit, Len(ord)))

SelectById(S, id) == {r \in S : r.id = PgInt(id)}

(***************************************************************************)
(* Requests the model issues.                                              *)
(***************************************************************************)
\* Two workloads: concurrent requests drawn from a few valid inputs, and
\* requests issued one at a time drawn from inputs that include the invalid
\* and the boundary ones.
\* <<limit, offset>> of a listing's query string
ListInputs(w) ==
  IF w THEN {Undefined, <<"1">>, <<"2", "0", "0">>, <<"-", "1">>, <<"0">>, <<"a", "b", "c">>}
            \X {Undefined, <<"1">>, <<"-", "5">>, <<"x">>}
  ELSE {<<Undefined, Undefined>>, << <<"1">>, <<"1">> >>}
\* the id path parameter
IdInputs(w) ==
  IF w THEN {<<"1">>, <<"0", "1">>, <<"2">>, <<"0">>, <<"-", "1">>, <<"x">>}
  ELSE {<<"1">>, <<"0", "1">>}
\* <<name, description>> of a request body
WideBodies ==
  {Undefined, <<>>, <<" ">>, <<"a">>, <<" ", "b">>,
   Rep("x", MaxNameLen), Rep("x", MaxNameLen + 1), Rep("x", MaxNameLen) \o <<" ">>}
  \X {Undefined, <<"d">>, Rep("y", MaxDescLen + 1), Rep("y", MaxDescLen) \o <<" ">>}
PostBodies(w) == IF w THEN WideBodies ELSE {<< <<" ", "b">>, <<"d">> >>}
PutBodies(w) == IF w THEN WideBodies ELSE {<< <<"a">>, Undefined >>}

(***************************************************************************)
(* State.                                                                  *)
(***************************************************************************)
VARIABLES
  items,     \* rows of the items table
  seq,       \* last value of items_id_seq
  now,       \* last CURRENT_TIMESTAMP the store handed out
  cache,     \* Redis: key -> [val, ttl]
  pc,        \* per handler: the await it is suspended at
  h,         \* per handler: the request, its locals and its response
  issued,    \* requests issued so far
  faults,    \* store and cache calls that failed so far
  wide,      \* the workload: TRUE for the wide input sets
  resp,      \* the request answered last, with its response
  last,      \* per resource: the last response, if its request ran alone
  held,      \* history: every row version the items table has held
  users,     \* rows of the users table: id, email, username
  tokens,    \* rows of the refresh_tokens table: user_id, token, expires_at
  useq,      \* last value of users_id_seq
  apc,       \* per registration handler: the await it is suspended at
  ah,        \* per registration handler: the request and its locals
  aissued,   \* registrations issued so far
  afaults,   \* store calls of registrations that failed in an outage so far
  aresp,     \* the registration answered last, with its response
  clock,     \* minutes since the service started
  grants,    \* history: the refresh tokens handed out, each with its user id
  revoked,   \* history: the tokens handed out before a logout of their user
  boot,      \* startServer: the await it is suspended at, or how it ended
  rclient,   \* redisClient: its socket, the last call of reconnectStrategy, the calls of quit()
  pool,      \* the PostgreSQL pool: whether end() was called, how often, whether SELECT 1 returned
  down,      \* the runs of gracefulShutdown, one for each signal received
  exited,    \* process.exit(code), once called
  gauge,     \* activeConnections: the value of http_active_connections
  conns      \* per connection: the GET /health request on it

itemVars == <<items, seq, now, cache, pc, h, issued, faults, wide, resp, last, held>>
authVars == <<users, tokens, useq, apc, ah, aissued, afaults, aresp, clock, grants, revoked>>
srvVars == <<boot, rclient, pool, down, exited, gauge, conns>>
vars == <<items, seq, now, cache, pc, h, issued, faults, wide, resp, last, held,
          users, tokens, useq, apc, ah, aissued, afaults, aresp,
          clock, grants, revoked, boot, rclient, pool, down, exited, gauge, conns>>

LIST == 0
Resources == 0..MaxId

NoBody == [none |-> TRUE]
NoSummary == [op |-> "none"]

Blank ==
  [op |-> "none", id |-> Undefined, rawName |-> Undefined, rawDesc |-> Undefined,
   name |-> Undefined, desc |-> Undefined, limit |-> 0, offset |-> 0,
   key |-> <<>>, keys |-> {}, count |-> <<>>, data |-> <<>>, row |-> NoBody, rid |-> 0,
   status |-> 0, body |-> NoBody, log |-> <<>>, shared |-> {}, prev |-> NoSummary]

InFlight(p) == pc[p] # "idle"

\* The resources a request touches: the listing (0) and the row ids.
\* A request refused by the validators touches nothing.
Res(hp) ==
  CASE hp.status = 400 -> {}
    [] hp.op = "list" -> {LIST}
    [] hp.op = "get" -> {PgInt(hp.id)} \cap Resources
    [] hp.op \in {"put", "delete"} -> {LIST} \cup ({PgInt(hp.id)} \cap Resources)
    [] hp.op = "post" -> {LIST} \cup (IF hp.rid = 0 THEN {} ELSE {hp.rid})
    [] OTHER -> {}

\* One call to the store or to the cache, as the handler sees it.
Call(sys, what, ok) == [sys |-> sys, what |-> what, ok |-> ok]

StoreCalls(hp) == {i \in DOMAIN hp.log : hp.log[i].sys = "store"}
CacheCalls(hp) == {i \in DOMAIN hp.log : hp.log[i].sys = "cache"}
StoreFailed(hp) == \E i \in StoreCalls(hp) : ~hp.log[i].ok
CacheFailed(hp) == \E i \in CacheCalls(hp) : ~hp.log[i].ok
CacheWrites(hp) == {i \in CacheCalls(hp) : hp.log[i].what \in {"setEx", "del", "delKeys"}}

Whats(hp) == [i \in DOMAIN hp.log |-> hp.log[i].what]

\* What a later request on the same resource is compared with.
Summary(hp) ==
  [op |-> hp.op, id |-> hp.id, key |-> hp.key, status |-> hp.status, body |-> hp.body,
   calls |-> Whats(hp), after |-> hp.prev.op, ttlOk |-> TRUE]

\* Redis GET, SETEX, DEL and KEYS.
EmptyCache == [k \in {} |-> [val |-> Null, ttl |-> 0]]
CacheGet(c, k) == IF k \in DOMAIN c THEN c[k].val ELSE Null
\* Mutant: SET without an expiration.
CachePut_noExpiry(c, k, v, ttl) == [x \in DOMAIN c \cup {k} |-> IF x = k THEN [val |-> v, ttl |-> 0] ELSE c[x]]

CachePut(c, k, v, ttl) == [x \in DOMAIN c \cup {k} |-> IF x = k THEN [val |-> v, ttl |-> ttl] ELSE c[x]]
CacheDel(c, K) == [x \in DOMAIN c \ K |-> c[x]]
CacheKeys(c) == {k \in DOMAIN c : MatchesItemsStar(k)}

(***************************************************************************)
(* The users and refresh_tokens tables as the service starts.              *)
(***************************************************************************)
Chars_admin == <<"a", "d", "m", "i", "n">>
Chars_adminEmail == Chars_admin \o <<"@", "e", "x", "a", "m", "p", "l", "e", ".", "c", "o", "m">>

\* bcrypt.hash(password, saltRounds): bcrypt.compare(password, hash) holds for
\* the password that was hashed and for no other.
BcryptHash(pw) == <<"$2a$12$">> \o pw

\* A row of users: the columns the auth routes read and return.
User(id, email, username, password) ==
  [id |-> id, email |-> email, username |-> username, password |-> password]

\* INSERT INTO users ... ('admin@example.com', '$2a$12$...', 'admin', 'admin'):
\* the hash is that of 'admin123'.
SeedUsers ==
  {User(1, Chars_adminEmail, Chars_admin, BcryptHash(Chars_admin \o <<"1", "2", "3">>))}

\* A text made of words: a word is a run of characters without a space, a
\* space, or a whole JSON Web Token with its claims, the key it was signed
\* with and the times it was signed at and expires at.
Word(w) == [word |-> w, claims |-> [id |-> 0], key |-> "", iat |-> 0, exp |-> 0]

\* A value that is no string: undefined.
NoText == <<Word("undefined")>>

JwtSecret == "JWT_SECRET"

\* '15m', '7d' and INTERVAL '7 days', in minutes.
AccessExpiry == 15
RefreshExpiry == 10080
RowExpiry == 10080

\* jwt.sign(claims, key, { expiresIn }): a token of one word, signed at t.
Sign(claims, key, t, ttl) ==
  <<[word |-> "jwt", claims |-> claims, key |-> key, iat |-> t, exp |-> t + ttl]>>

\* Mutant: the signature is checked, the expiry is not.
JwtVerify_ignoreExpiry(token, secret, t) ==
  /\ Len(token) = 1
  /\ token[1].word = "jwt"
  /\ token[1].key = secret

\* jwt.verify(token, secret) returns the payload of a well-formed token that
\* was signed with the secret and has not expired, and throws otherwise.
JwtVerify(token, secret, t) ==
  /\ Len(token) = 1
  /\ token[1].word = "jwt"
  /\ token[1].key = secret
  /\ t < token[1].exp

NoDecoded == [claims |-> [id |-> 0], iat |-> 0, exp |-> 0]

\* A row of refresh_tokens, inserted at t: expires_at is NOW() + 7 days.
TokenRow(uid, token, t) == [user_id |-> uid, token |-> token, expires_at |-> t + RowExpiry]

NoUser == 0

BlankReg ==
  [op |-> "none", rawEmail |-> <<>>, rawUsername |-> <<>>, password |-> <<>>,
   email |-> <<>>, username |-> <<>>, status |-> 0, log |-> <<>>,
   created |-> NoUser, tokened |-> FALSE, outage |-> FALSE]

AuthInit ==
  /\ users = SeedUsers
  /\ tokens = {}
  /\ useq = 1
  /\ apc = [p \in Procs |-> "idle"]
  /\ ah = [p \in Procs |-> BlankReg]
  /\ aissued = 0
  /\ afaults = 0
  /\ aresp = BlankReg
  /\ clock = 0
  /\ grants = {}
  /\ revoked = {}

\* const health = { status: 'healthy', ..., services: {} } on a connection
\* that carries no request yet; code is the response's status code.
BlankHealth ==
  [at |-> "none", open |-> TRUE, status |-> "healthy", postgres |-> "", redis |-> "", code |-> 0]

\* The process once index.js has been loaded: the signal handlers are
\* registered and startServer() waits for connectRedis().
SrvInit ==
  /\ boot = "redis"
  /\ rclient = [state |-> "connecting", retries |-> 0, asked |-> 0 - 1, delay |-> 0,
                opened |-> FALSE, quits |-> 0]
  /\ pool = [ending |-> FALSE, ends |-> 0, probed |-> FALSE]
  /\ down = <<>>
  /\ exited = [code |-> 0 - 1, by |-> "none"]
  /\ gauge = 0
  /\ conns = [c \in 1..MaxConns |-> BlankHealth]

Init ==
  /\ \E n \in {0, NumSeed} : items = SeedRows(n) /\ seq = n
  /\ now = 0
  /\ cache = EmptyCache
  /\ pc = [p \in Procs |-> "idle"]
  /\ h = [p \in Procs |-> Blank]
  /\ issued = 0
  /\ faults = 0
  /\ wide = FALSE
  /\ resp = Blank
  /\ last = [r \in Resources |-> NoSummary]
  /\ held = items
  /\ AuthInit
  /\ SrvInit

InitWide ==
  /\ \E n \in {0, NumSeed} : items = SeedRows(n) /\ seq = n
  /\ now = 0
  /\ cache = EmptyCache
  /\ pc = [p \in Procs |-> "idle"]
  /\ h = [p \in Procs |-> Blank]
  /\ issued = 0
  /\ faults = 0
  /\ wide = TRUE
  /\ resp = Blank
  /\ last = [r \in Resources |-> NoSummary]
  /\ held = items
  /\ AuthInit
  /\ SrvInit

(***************************************************************************)
(* Request arrival and response.                                           *)
(***************************************************************************)
\* The handler a new request runs on: the lowest one that is free.
Free(p) ==
  /\ ~InFlight(p)
  /\ \A q \in Procs : q < p => InFlight(q)
  /\ IF wide THEN issued < WideReqs /\ p = 1 ELSE issued < MaxReqs

\* A request arrives with locals hp and suspends at nextpc.  Requests in
\* flight on a common resource are marked as having shared it.
Arrive(p, hp, nextpc) ==
  LET others == {q \in Procs \ {p} : InFlight(q)}
      com(q) == Res(hp) \cap Res(h[q])
      mine == UNION {com(q) : q \in others}
      prim == IF hp.op = "list" THEN LIST ELSE IF hp.op = "get" /\ Res(hp) # {} THEN PgInt(hp.id) ELSE -1
  IN /\ h' = [q \in Procs |->
               IF q = p THEN [hp EXCEPT !.shared = mine,
                                        !.prev = IF prim \in Resources THEN last[prim] ELSE NoSummary]
               ELSE IF q \in others THEN [h[q] EXCEPT !.shared = @ \cup com(q)]
               ELSE h[q]]
     /\ pc' = [pc EXCEPT ![p] = nextpc]
     /\ issued' = issued + 1
     /\ UNCHANGED <<srvVars, authVars, held, items, seq, now, cache, faults, wide, resp, last>>

\* res.status(status).json(body): the request ends.
Respond(p, hp, status, body) ==
  LET hq == [hp EXCEPT !.status = status, !.body = body]
  IN /\ resp' = hq
     /\ h' = [h EXCEPT ![p] = Blank]
     /\ pc' = [pc EXCEPT ![p] = "idle"]
     /\ wide' = wide
     /\ last' = [r \in Resources |->
                   IF r \in Res(hq) THEN (IF r \in hq.shared THEN NoSummary ELSE Summary(hq))
                   ELSE last[r]]

Logged(p, call) == [h[p] EXCEPT !.log = Append(@, call)]

\* catch (err) { res.status(500).json({ error: 'Internal server error' }) }
Catch(p, call) ==
  /\ Respond(p, Logged(p, call), 500, [error |-> "Internal server error"])
  /\ faults' = IF faults < MaxFaults THEN faults + 1 ELSE faults
  /\ UNCHANGED <<srvVars, authVars, held, items, seq, now, cache, issued>>

\* Whether a call to the store or the cache succeeds: the environment's choice.
Outcomes == IF faults < MaxFaults THEN {TRUE, FALSE} ELSE {TRUE}

\* validate: res.status(400).json({ error: 'Validation failed', ... })
Refuse(p, hp) ==
  /\ resp' = [hp EXCEPT !.status = 400, !.body = [error |-> "Validation failed"]]
  /\ issued' = issued + 1
  /\ UNCHANGED <<srvVars, authVars, held, items, seq, now, cache, pc, h, faults, wide, last>>

\* CURRENT_TIMESTAMP of a statement: never before an earlier one, and after
\* the sample rows' (time 0).
Times == {now + 1} \cup (IF now > 0 THEN {now} ELSE {})

(***************************************************************************)
(* GET /items                                                              *)
(***************************************************************************)
DefaultLimit == 50
MaxLimit == 100
DefaultOffset == 0
ListTTL == 60
PointTTL == 300

NormLimit(q) == Min(OrDefault(ParseInt(q), DefaultLimit), MaxLimit)
NormOffset(q) == OrDefault(ParseInt(q), DefaultOffset)

ListStart(p) ==
  /\ Free(p)
  /\ \E q \in ListInputs(wide) :
       LET limit == NormLimit(q[1])
           offset == NormOffset(q[2])
       IN Arrive(p, [Blank EXCEPT !.op = "list", !.limit = limit, !.offset = offset,
                                  !.key = ListKey(limit, offset)], "list_get")

ListCacheGet(p) ==
  /\ pc[p] = "list_get"
  /\ \E ok \in Outcomes :
       IF ~ok THEN Catch(p, Call("cache", "get", FALSE))
       ELSE LET cached == CacheGet(cache, h[p].key)
                hp == Logged(p, Call("cache", "get", TRUE))
            IN IF cached # Null
               THEN /\ Respond(p, hp, 200, SendPage("cache", JsonParse(cached)))
                    /\ UNCHANGED <<srvVars, authVars, held, items, seq, now, cache, issued, faults>>
               ELSE /\ h' = [h EXCEPT ![p] = hp]
                    /\ pc' = [pc EXCEPT ![p] = "list_count"]
                    /\ UNCHANGED <<srvVars, authVars, held, items, seq, now, cache, issued, faults, wide, resp, last>>

\* Mutant: a failed count query is issued again.
ListCount_retry(p) ==
  /\ pc[p] = "list_count"
  /\ \E ok \in Outcomes :
       IF ~ok THEN /\ h' = [h EXCEPT ![p] = Logged(p, Call("store", "count", FALSE))]
                   /\ faults' = faults + 1
                   /\ UNCHANGED <<srvVars, authVars, held, items, seq, now, cache, pc, issued, wide, resp, last>>
       ELSE /\ h' = [h EXCEPT ![p] = [Logged(p, Call("store", "count", TRUE)) EXCEPT !.count = CountAll(items)]]
            /\ pc' = [pc EXCEPT ![p] = "list_page"]
            /\ UNCHANGED <<srvVars, authVars, held, items, seq, now, cache, issued, faults, wide, resp, last>>

ListCount(p) ==
  /\ pc[p] = "list_count"
  /\ \E ok \in Outcomes :
       IF ~ok THEN Catch(p, Call("store", "count", FALSE))
       ELSE /\ h' = [h EXCEPT ![p] = [Logged(p, Call("store", "count", TRUE)) EXCEPT !.count = CountAll(items)]]
            /\ pc' = [pc EXCEPT ![p] = "list_page"]
            /\ UNCHANGED <<srvVars, authVars, held, items, seq, now, cache, issued, faults, wide, resp, last>>

ListPage(p) ==
  /\ pc[p] = "list_page"
  /\ \E ok \in Outcomes :
       IF ~ok \/ ~PageOk(h[p].limit, h[p].offset) THEN Catch(p, Call("store", "page", FALSE))
       ELSE /\ \E ord \in Orders(items) :
                 h' = [h EXCEPT ![p] = [Logged(p, Call("store", "page", TRUE)) EXCEPT
                                          !.data = PageOf(ord, h[p].limit, h[p].offset)]]
            /\ pc' = [pc EXCEPT ![p] = "list_setEx"]
            /\ UNCHANGED <<srvVars, authVars, held, items, seq, now, cache, issued, faults, wide, resp, last>>

\* const response = { count: parseInt(countResult.rows[0].count), data: result.rows }
ListResponse(hp) == [count |-> ParseInt(hp.count)[1], data |-> hp.data]

\* Mutant: the listing is answered without being written to the cache.
ListSetEx_noWrite(p) ==
  /\ pc[p] = "list_setEx"
  /\ Respond(p, Logged(p, Call("cache", "setEx", TRUE)), 200, SendPage("database", ListResponse(h[p])))
  /\ UNCHANGED <<srvVars, authVars, held, items, seq, now, cache, issued, faults>>

ListSetEx(p) ==
  /\ pc[p] = "list_setEx"
  /\ \E ok \in Outcomes :
       IF ~ok THEN Catch(p, Call("cache", "setEx", FALSE))
       ELSE /\ cache' = CachePut(cache, h[p].key, StringifyPage(ListResponse(h[p])), ListTTL)
            /\ Respond(p, Logged(p, Call("cache", "setEx", TRUE)), 200, SendPage("database", ListResponse(h[p])))
            /\ UNCHANGED <<srvVars, authVars, held, items, seq, now, issued, faults>>

(***************************************************************************)
(* GET /items/:id                                                          *)
(***************************************************************************)
GetStart(p) ==
  /\ Free(p)
  /\ \E id \in IdInputs(wide) :
       LET hp == [Blank EXCEPT !.op = "get", !.id = id, !.key = PointKey(id)]
       IN IF IdValid(id) THEN Arrive(p, hp, "get_get") ELSE Refuse(p, hp)

GetCacheGet(p) ==
  /\ pc[p] = "get_get"
  /\ \E ok \in Outcomes :
       IF ~ok THEN Catch(p, Call("cache", "get", FALSE))
       ELSE LET cached == CacheGet(cache, h[p].key)
                hp == Logged(p, Call("cache", "get", TRUE))
            IN IF cached # Null
               THEN /\ Respond(p, hp, 200, JsonParse(cached))
                    /\ UNCHANGED <<srvVars, authVars, held, items, seq, now, cache, issued, faults>>
               ELSE /\ h' = [h EXCEPT ![p] = hp]
                    /\ pc' = [pc EXCEPT ![p] = "get_select"]
                    /\ UNCHANGED <<srvVars, authVars, held, items, seq, now, cache, issued, faults, wide, resp, last>>

NotFound == [error |-> "Item not found"]

\* Mutant: the not-found response is sent without returning from the handler.
GetSelect_noReturn(p) ==
  /\ pc[p] = "get_select"
  /\ LET rows == SelectById(items, h[p].id)
         hp == Logged(p, Call("store", "select", TRUE))
     IN /\ h' = [h EXCEPT ![p] = IF rows = {} THEN hp ELSE [hp EXCEPT !.row = CHOOSE r \in rows : TRUE]]
        /\ resp' = IF rows = {} THEN [hp EXCEPT !.status = 404, !.body = NotFound] ELSE resp
        /\ pc' = [pc EXCEPT ![p] = "get_setEx"]
        /\ UNCHANGED <<srvVars, authVars, held, items, seq, now, cache, issued, faults, wide, last>>

\* Mutant: a not-found result is written to the cache like a row.
GetSelect_cacheNotFound(p) ==
  /\ pc[p] = "get_select"
  /\ LET rows == SelectById(items, h[p].id)
         hp == Logged(p, Call("store", "select", TRUE))
     IN IF rows = {}
        THEN /\ cache' = CachePut(cache, h[p].key, <<"json", NotFound>>, PointTTL)
             /\ Respond(p, hp, 404, NotFound)
             /\ UNCHANGED <<srvVars, authVars, held, items, seq, now, issued, faults>>
        ELSE /\ h' = [h EXCEPT ![p] = [hp EXCEPT !.row = CHOOSE r \in rows : TRUE]]
             /\ pc' = [pc EXCEPT ![p] = "get_setEx"]
             /\ UNCHANGED <<srvVars, authVars, held, items, seq, now, cache, issued, faults, wide, resp, last>>

GetSelect(p) ==
  /\ pc[p] = "get_select"
  /\ \E ok \in Outcomes :
       IF ~ok THEN Catch(p, Call("store", "select", FALSE))
       ELSE LET rows == SelectById(items, h[p].id)
                hp == Logged(p, Call("store", "select", TRUE))
            IN IF rows = {}
               THEN /\ Respond(p, hp, 404, NotFound)
                    /\ UNCHANGED <<srvVars, authVars, held, items, seq, now, cache, issued, faults>>
               ELSE /\ h' = [h EXCEPT ![p] = [hp EXCEPT !.row = CHOOSE r \in rows : TRUE]]
                    /\ pc' = [pc EXCEPT ![p] = "get_setEx"]
                    /\ UNCHANGED <<srvVars, authVars, held, items, seq, now, cache, issued, faults, wide, resp, last>>

\* Mutant: the row is answered without being written to the cache.
GetSetEx_noWrite(p) ==
  /\ pc[p] = "get_setEx"
  /\ Respond(p, Logged(p, Call("cache", "setEx", TRUE)), 200, SendRow(h[p].row))
  /\ UNCHANGED <<srvVars, authVars, held, items, seq, now, cache, issued, faults>>

\* Mutant: the row is written to the cache only if the table still holds it.
GetSetEx_ifCurrent(p) ==
  /\ pc[p] = "get_setEx"
  /\ cache' = IF h[p].row \in items
              THEN CachePut(cache, h[p].key, StringifyRow(h[p].row), PointTTL)
              ELSE cache
  /\ Respond(p, Logged(p, Call("cache", "setEx", TRUE)), 200, SendRow(h[p].row))
  /\ UNCHANGED <<srvVars, authVars, held, items, seq, now, issued, faults>>

GetSetEx(p) ==
  /\ pc[p] = "get_setEx"
  /\ \E ok \in Outcomes :
       IF ~ok THEN Catch(p, Call("cache", "setEx", FALSE))
       ELSE /\ cache' = CachePut(cache, h[p].key, StringifyRow(h[p].row), PointTTL)
            /\ Respond(p, Logged(p, Call("cache", "setEx", TRUE)), 200, SendRow(h[p].row))
            /\ UNCHANGED <<srvVars, authVars, held, items, seq, now, issued, faults>>

(***************************************************************************)
(* Invalidation steps shared in shape by POST, PUT and DELETE.             *)
(***************************************************************************)
\* const keys = await redisClient.keys('items:*'); with no key found the
\* handler answers at once, otherwise it suspends at the bulk delete.
ScanKeys(p, delpc, status, body) ==
  \E ok \in Outcomes :
    IF ~ok THEN Catch(p, Call("cache", "keys", FALSE))
    ELSE LET keys == CacheKeys(cache)
             hp == [Logged(p, Call("cache", "keys", TRUE)) EXCEPT !.keys = keys]
         IN IF keys = {}
            THEN /\ Respond(p, hp, status, body)
                 /\ UNCHANGED <<srvVars, authVars, held, items, seq, now, cache, issued, faults>>
            ELSE /\ h' = [h EXCEPT ![p] = hp]
                 /\ pc' = [pc EXCEPT ![p] = delpc]
                 /\ UNCHANGED <<srvVars, authVars, held, items, seq, now, cache, issued, faults, wide, resp, last>>

\* await redisClient.del(keys); then the response.
DelKeys(p, status, body) ==
  \E ok \in Outcomes :
    IF ~ok THEN Catch(p, Call("cache", "delKeys", FALSE))
    ELSE /\ cache' = CacheDel(cache, h[p].keys)
         /\ Respond(p, Logged(p, Call("cache", "delKeys", TRUE)), status, body)
         /\ UNCHANGED <<srvVars, authVars, held, items, seq, now, issued, faults>>

\* await redisClient.del(`item:${id}`)
DelPoint(p, nextpc) ==
  \E ok \in Outcomes :
    IF ~ok THEN Catch(p, Call("cache", "del", FALSE))
    ELSE /\ cache' = CacheDel(cache, {PointKey(h[p].id)})
         /\ h' = [h EXCEPT ![p] = Logged(p, Call("cache", "del", TRUE))]
         /\ pc' = [pc EXCEPT ![p] = nextpc]
         /\ UNCHANGED <<srvVars, authVars, held, items, seq, now, issued, faults, wide, resp, last>>

(***************************************************************************)
(* POST /items                                                             *)
(***************************************************************************)
\* Inserts still to come from requests in flight.
PendingInserts == Cardinality({q \in Procs : pc[q] = "post_insert"})

PostStart(p) ==
  /\ Free(p)
  /\ seq + PendingInserts < MaxId
  /\ \E b \in PostBodies(wide) :
       LET name == b[1]
           desc == b[2]
           hp == [Blank EXCEPT !.op = "post", !.rawName = name, !.rawDesc = desc,
                               !.name = SanitizeName(name), !.desc = SanitizeDesc(desc)]
       IN IF NameValid(name) /\ DescValid(desc) THEN Arrive(p, hp, "post_insert") ELSE Refuse(p, hp)

\* INSERT INTO items (name, description) VALUES ($1, $2) RETURNING *
PostInsert(p) ==
  /\ pc[p] = "post_insert"
  /\ \E ok \in Outcomes :
       IF ~ok \/ ~ColumnOk(PgParam(h[p].name)) THEN Catch(p, Call("store", "insert", FALSE))
       ELSE \E t \in Times :
              LET row == Row(seq + 1, h[p].name, PgParam(h[p].desc), t)
                  hit == {q \in Procs \ {p} : InFlight(q) /\ row.id \in Res(h[q])}
              IN /\ items' = items \cup {row}
                 /\ held' = held \cup {row}
                 /\ seq' = seq + 1
                 /\ now' = t
                 /\ h' = [q \in Procs |->
                           IF q = p THEN [Logged(p, Call("store", "insert", TRUE)) EXCEPT
                                            !.row = row, !.rid = row.id,
                                            !.shared = IF hit = {} THEN @ ELSE @ \cup {row.id}]
                           ELSE IF q \in hit THEN [h[q] EXCEPT !.shared = @ \cup {row.id}]
                           ELSE h[q]]
                 /\ pc' = [pc EXCEPT ![p] = "post_keys"]
                 /\ UNCHANGED <<srvVars, authVars, cache, issued, faults, wide, resp, last>>

\* Mutant: the create is answered without invalidating the listings.
PostKeys_noInvalidate(p) ==
  /\ pc[p] = "post_keys"
  /\ Respond(p, h[p], 201, SendRow(h[p].row))
  /\ UNCHANGED <<srvVars, authVars, held, items, seq, now, cache, issued, faults>>

PostKeys(p) ==
  /\ pc[p] = "post_keys"
  /\ ScanKeys(p, "post_del", 201, SendRow(h[p].row))

PostDel(p) ==
  /\ pc[p] = "post_del"
  /\ DelKeys(p, 201, SendRow(h[p].row))

(***************************************************************************)
(* PUT /items/:id                                                          *)
(***************************************************************************)
PutStart(p) ==
  /\ Free(p)
  /\ \E id \in IdInputs(wide), b \in PutBodies(wide) :
       LET name == b[1]
           desc == b[2]
           hp == [Blank EXCEPT !.op = "put", !.id = id, !.rawName = name, !.rawDesc = desc,
                               !.name = SanitizeName(name), !.desc = SanitizeDesc(desc)]
       IN IF IdValid(id) /\ NameValid(name) /\ DescValid(desc)
          THEN Arrive(p, hp, "put_update") ELSE Refuse(p, hp)

\* UPDATE items SET name = $1, description = $2, updated_at = NOW()
\* WHERE id = $3 RETURNING *
PutUpdate(p) ==
  /\ pc[p] = "put_update"
  /\ \E ok \in Outcomes :
       IF ~ok \/ ~ColumnOk(PgParam(h[p].name)) THEN Catch(p, Call("store", "update", FALSE))
       ELSE LET rows == SelectById(items, h[p].id)
                hp == Logged(p, Call("store", "update", TRUE))
            IN IF rows = {}
               THEN /\ Respond(p, hp, 404, NotFound)
                    /\ UNCHANGED <<srvVars, authVars, held, items, seq, now, cache, issued, faults>>
               ELSE \E t \in Times :
                      LET old == CHOOSE r \in rows : TRUE
                          row == [old EXCEPT !.name = h[p].name, !.description = PgParam(h[p].desc),
                                             !.updated_at = Date(t)]
                      IN /\ items' = (items \ {old}) \cup {row}
                         /\ held' = held \cup {row}
                         /\ now' = t
                         /\ h' = [h EXCEPT ![p] = [hp EXCEPT !.row = row]]
                         /\ pc' = [pc EXCEPT ![p] = "put_delPoint"]
                         /\ UNCHANGED <<srvVars, authVars, seq, cache, issued, faults, wide, resp, last>>

PutDelPoint(p) ==
  /\ pc[p] = "put_delPoint"
  /\ DelPoint(p, "put_keys")

PutKeys(p) ==
  /\ pc[p] = "put_keys"
  /\ ScanKeys(p, "put_del", 200, SendRow(h[p].row))

PutDel(p) ==
  /\ pc[p] = "put_del"
  /\ DelKeys(p, 200, SendRow(h[p].row))

(***************************************************************************)
(* DELETE /items/:id                                                       *)
(***************************************************************************)
Deleted(row) == [message |-> "Item deleted successfully", item |-> WireRow(row)]

DeleteStart(p) ==
  /\ Free(p)
  /\ \E id \in IdInputs(wide) :
       LET hp == [Blank EXCEPT !.op = "delete", !.id = id]
       IN IF IdValid(id) THEN Arrive(p, hp, "delete_query") ELSE Refuse(p, hp)

\* Mutant: the caches are invalidated before the not-found answer.
DeleteQuery_invalidateFirst(p) ==
  /\ pc[p] = "delete_query"
  /\ LET rows == SelectById(items, h[p].id)
         hp == Logged(p, Call("store", "delete", TRUE))
     IN IF rows = {}
        THEN /\ cache' = CacheDel(cache, {PointKey(h[p].id)} \cup CacheKeys(cache))
             /\ Respond(p, hp, 404, NotFound)
             /\ UNCHANGED <<srvVars, authVars, held, items, seq, now, issued, faults>>
        ELSE /\ items' = items \ rows
             /\ h' = [h EXCEPT ![p] = [hp EXCEPT !.row = CHOOSE r \in rows : TRUE]]
             /\ pc' = [pc EXCEPT ![p] = "delete_delPoint"]
             /\ UNCHANGED <<srvVars, authVars, held, seq, now, cache, issued, faults, wide, resp, last>>

\* DELETE FROM items WHERE id = $1 RETURNING *
DeleteQuery(p) ==
  /\ pc[p] = "delete_query"
  /\ \E ok \in Outcomes :
       IF ~ok THEN Catch(p, Call("store", "delete", FALSE))
       ELSE LET rows == SelectById(items, h[p].id)
                hp == Logged(p, Call("store", "delete", TRUE))
            IN IF rows = {}
               THEN /\ Respond(p, hp, 404, NotFound)
                    /\ UNCHANGED <<srvVars, authVars, held, items, seq, now, cache, issued, faults>>
               ELSE /\ items' = items \ rows
                    /\ h' = [h EXCEPT ![p] = [hp EXCEPT !.row = CHOOSE r \in rows : TRUE]]
                    /\ pc' = [pc EXCEPT ![p] = "delete_delPoint"]
                    /\ UNCHANGED <<srvVars, authVars, held, seq, now, cache, issued, faults, wide, resp, last>>

DeleteDelPoint(p) ==
  /\ pc[p] = "delete_delPoint"
  /\ DelPoint(p, "delete_keys")

DeleteKeys(p) ==
  /\ pc[p] = "delete_keys"
  /\ ScanKeys(p, "delete_del", 200, Deleted(h[p].row))

DeleteDel(p) ==
  /\ pc[p] = "delete_del"
  /\ DelKeys(p, 200, Deleted(h[p].row))

(***************************************************************************)
(* Redis expiry: an entry written with SETEX disappears when its TTL runs  *)
(* out.  What was learnt from a response served or written under that key  *)
(* is marked as no longer backed by the entry.                             *)
(***************************************************************************)
Lapsed(sm, k) == IF sm.op # "none" /\ sm.key = k THEN [sm EXCEPT !.ttlOk = FALSE] ELSE sm

Expire ==
  \E k \in DOMAIN cache :
    /\ cache[k].ttl > 0
    /\ cache' = CacheDel(cache, {k})
    /\ last' = [r \in Resources |-> Lapsed(last[r], k)]
    /\ h' = [p \in Procs |-> IF InFlight(p) THEN [h[p] EXCEPT !.prev = Lapsed(@, k)] ELSE h[p]]
    /\ UNCHANGED <<srvVars, authVars, held, items, seq, now, pc, issued, faults, wide, resp>>

Step(p) ==
  \/ ListStart(p) \/ ListCacheGet(p) \/ ListCount(p) \/ ListPage(p) \/ ListSetEx(p)
  \/ GetStart(p) \/ GetCacheGet(p) \/ GetSelect(p) \/ GetSetEx(p)
  \/ PostStart(p) \/ PostInsert(p) \/ PostKeys(p) \/ PostDel(p)
  \/ PutStart(p) \/ PutUpdate(p) \/ PutDelPoint(p) \/ PutKeys(p) \/ PutDel(p)
  \/ DeleteStart(p) \/ DeleteQuery(p) \/ DeleteDelPoint(p) \/ DeleteKeys(p) \/ DeleteDel(p)

Next == (\E p \in Procs : Step(p)) \/ Expire

Spec == Init /\ [][Next]_vars

SpecWide == InitWide /\ [][Next]_vars

\* Redis removes an entry once its TTL has run out: an entry that can expire
\* does not stay forever.
SpecLive == Spec /\ WF_vars(Expire)

\* The continuation of a handler after an await.
Resume(p) ==
  \/ ListCacheGet(p) \/ ListCount(p) \/ ListPage(p) \/ ListSetEx(p)
  \/ GetCacheGet(p) \/ GetSelect(p) \/ GetSetEx(p)
  \/ PostInsert(p) \/ PostKeys(p) \/ PostDel(p)
  \/ PutUpdate(p) \/ PutDelPoint(p) \/ PutKeys(p) \/ PutDel(p)
  \/ DeleteQuery(p) \/ DeleteDelPoint(p) \/ DeleteKeys(p) \/ DeleteDel(p)

\* A quiet moment of the service with one request of the wide workload still
\* to come: the table empty or holding the sample rows, the cache empty or
\* holding what GET /items and GET /items/1 have just written.
InitQuiet ==
  /\ \E n \in {0, NumSeed} : items = SeedRows(n) /\ seq = n
  /\ now = 0
  /\ \/ cache = EmptyCache
     \/ \E ord \in Orders(items) :
          LET page == [count |-> Cardinality(items), data |-> PageOf(ord, DefaultLimit, DefaultOffset)]
              listed == CachePut(EmptyCache, ListKey(DefaultLimit, DefaultOffset), StringifyPage(page), ListTTL)
          IN cache = IF SelectById(items, <<"1">>) = {} THEN listed
                     ELSE CachePut(listed, PointKey(<<"1">>),
                                   StringifyRow(CHOOSE r \in SelectById(items, <<"1">>) : TRUE), PointTTL)
  /\ pc = [p \in Procs |-> "idle"]
  /\ h = [p \in Procs |-> Blank]
  /\ issued = WideReqs - 1
  /\ faults = 0
  /\ wide = TRUE
  /\ resp = Blank
  /\ last = [r \in Resources |-> NoSummary]
  /\ held = items
  /\ AuthInit
  /\ SrvInit

\* Every store and cache call returns or fails: a handler suspended at an
\* await is resumed.
SpecFair == InitQuiet /\ [][Next]_vars /\ \A p \in Procs : WF_vars(Resume(p))

(***************************************************************************)
(* Properties.  resp is the request answered last; resp.prev is the        *)
(* response that came before it on the same resource, when that request    *)
(* ran with no other request on the resource in flight; resp.shared are    *)
(* the resources on which resp overlapped with another request.            *)
(***************************************************************************)
(***************************************************************************)
(* POST /api/auth/register                                                 *)
(***************************************************************************)
UpperChars == <<"A", "B", "C", "D", "E", "F", "G", "H", "I", "J", "K", "L", "M",
                "N", "O", "P", "Q", "R", "S", "T", "U", "V", "W", "X", "Y", "Z">>
LowerChars == <<"a", "b", "c", "d", "e", "f", "g", "h", "i", "j", "k", "l", "m",
                "n", "o", "p", "q", "r", "s", "t", "u", "v", "w", "x", "y", "z">>

LowerChar(c) ==
  IF \E i \in 1..26 : UpperChars[i] = c
  THEN LowerChars[CHOOSE i \in 1..26 : UpperChars[i] = c]
  ELSE c

\* normalizeEmail(): the address in lower case.
NormalizeEmail(e) == [i \in DOMAIN e |-> LowerChar(e[i])]

\* isEmail(): one @, a local part before it, a dotted domain after it.
IsEmail(e) ==
  /\ Cardinality({i \in DOMAIN e : e[i] = "@"}) = 1
  /\ LET at == CHOOSE i \in DOMAIN e : e[i] = "@"
     IN /\ at > 1
        /\ \E j \in (at + 2)..(Len(e) - 1) : e[j] = "."

MinPasswordLen == 6
MinUsernameLen == 3

\* escape(): the HTML special characters become entities.
EscapeChar(c) ==
  CASE c = "<" -> <<"&", "l", "t", ";">>
    [] c = ">" -> <<"&", "g", "t", ";">>
    [] c = "&" -> <<"&", "a", "m", "p", ";">>
    [] OTHER -> <<c>>

RECURSIVE Escape(_)
Escape(s) == IF s = <<>> THEN <<>> ELSE EscapeChar(Head(s)) \o Escape(Tail(s))

\* body('username').isLength({ min: 3 }).trim().escape(): the length is that
\* of the value as sent, the stored value is trimmed and escaped.
SanitizeUsername(u) == Escape(Trim(u))

RegValid(e, pw, u) == IsEmail(e) /\ Len(pw) >= MinPasswordLen /\ Len(u) >= MinUsernameLen

\* The bodies of the registrations the model issues: <<email, password, username>>.
RegBodies ==
  {<<"a", "@", "x", ".", "i", "o">>, <<"A", "@", "x", ".", "i", "o">>,
   <<"b", "@", "x", ".", "i", "o">>, Chars_adminEmail, <<"a", "x">>}
    \X {<<"s", "e", "c", "r", "e", "t">>, <<"p", "w">>}
    \X {<<"b", "o", "b">>, <<"b", "o", "b", " ">>, <<"a", "n", "n">>, <<"<", "a", ">">>, <<"a", "l">>}

\* SELECT id FROM users WHERE email = $1 OR username = $2
ExistingUser(U, email, username) == {u \in U : u.email = email \/ u.username = username}

RegLogged(p, what, ok) == [ah[p] EXCEPT !.log = Append(@, [what |-> what, ok |-> ok])]

\* res.status(status).json(...): the registration ends.
RegRespond(p, hp, status) ==
  /\ aresp' = [hp EXCEPT !.status = status]
  /\ ah' = [ah EXCEPT ![p] = BlankReg]
  /\ apc' = [apc EXCEPT ![p] = "idle"]

\* Whether a store call of a registration meets an outage.
RegOutcomes == IF afaults < MaxAuthFaults THEN {TRUE, FALSE} ELSE {TRUE}

\* catch (error) { res.status(500).json({ error: 'Registration failed' }) }
\* after a store call failed in an outage.
RegOutage(p, what) ==
  /\ RegRespond(p, [RegLogged(p, what, FALSE) EXCEPT !.outage = TRUE], 500)
  /\ afaults' = afaults + 1

RegStart(p) ==
  /\ apc[p] = "idle"
  /\ \A q \in Procs : q < p => apc[q] # "idle"
  /\ aissued < MaxRegs
  /\ \E b \in RegBodies :
       LET hp == [BlankReg EXCEPT !.op = "register", !.rawEmail = b[1], !.password = b[2],
                                  !.rawUsername = b[3], !.email = NormalizeEmail(b[1]),
                                  !.username = SanitizeUsername(b[3])]
       IN IF RegValid(b[1], b[2], b[3])
          THEN /\ ah' = [ah EXCEPT ![p] = hp]
               /\ apc' = [apc EXCEPT ![p] = "reg_select"]
               /\ UNCHANGED aresp
          ELSE /\ aresp' = [hp EXCEPT !.status = 400]
               /\ UNCHANGED <<ah, apc>>
  /\ aissued' = aissued + 1
  /\ UNCHANGED <<srvVars, clock, grants, revoked, itemVars, users, tokens, useq, afaults>>

\* const existingUser = await pool.query('SELECT id FROM users WHERE ...')
RegSelect(p) ==
  /\ apc[p] = "reg_select"
  /\ \E ok \in RegOutcomes :
       IF ~ok THEN RegOutage(p, "select")
       ELSE /\ IF ExistingUser(users, ah[p].email, ah[p].username) # {}
               THEN RegRespond(p, RegLogged(p, "select", TRUE), 409)
               ELSE /\ ah' = [ah EXCEPT ![p] = RegLogged(p, "select", TRUE)]
                    /\ apc' = [apc EXCEPT ![p] = "reg_hash"]
                    /\ UNCHANGED aresp
            /\ UNCHANGED afaults
  /\ UNCHANGED <<srvVars, clock, grants, revoked, itemVars, users, tokens, useq, aissued>>

\* const hashedPassword = await bcrypt.hash(password, saltRounds)
RegHash(p) ==
  /\ apc[p] = "reg_hash"
  /\ ah' = [ah EXCEPT ![p] = RegLogged(p, "hash", TRUE)]
  /\ apc' = [apc EXCEPT ![p] = "reg_insert"]
  /\ UNCHANGED <<srvVars, clock, grants, revoked, itemVars, users, tokens, useq, aissued, afaults, aresp>>

\* INSERT INTO users (email, password, username, role) ... RETURNING ...
\* email and username are UNIQUE: a row with either one already present
\* makes the INSERT fail, and the failure is caught like any other error.
\* The sequence value the INSERT drew is not given back.
RegInsert(p) ==
  /\ apc[p] = "reg_insert"
  /\ \E ok \in RegOutcomes :
       IF ~ok THEN RegOutage(p, "insert") /\ UNCHANGED <<users, useq>>
       ELSE /\ useq' = useq + 1
            /\ UNCHANGED afaults
            /\ IF ExistingUser(users, ah[p].email, ah[p].username) # {}
               THEN /\ RegRespond(p, RegLogged(p, "insert", FALSE), 500)
                    /\ UNCHANGED users
               ELSE /\ users' = users \cup {User(useq + 1, ah[p].email, ah[p].username,
                                                  BcryptHash(ah[p].password))}
                    /\ ah' = [ah EXCEPT ![p] = [RegLogged(p, "insert", TRUE) EXCEPT !.created = useq + 1]]
                    /\ apc' = [apc EXCEPT ![p] = "reg_token"]
                    /\ UNCHANGED aresp
  /\ UNCHANGED <<srvVars, clock, grants, revoked, itemVars, tokens, aissued>>

\* const refreshToken = jwt.sign({ id: user.id }, JWT_SECRET, { expiresIn: '7d' });
\* INSERT INTO refresh_tokens (user_id, token, expires_at) ...; then 201.
RegToken(p) ==
  /\ apc[p] = "reg_token"
  /\ \E ok \in RegOutcomes :
       IF ~ok THEN RegOutage(p, "token") /\ UNCHANGED tokens
       ELSE /\ tokens' = tokens \cup
                 {TokenRow(ah[p].created,
                           Sign([id |-> ah[p].created], JwtSecret, clock, RefreshExpiry), clock)}
            /\ RegRespond(p, [RegLogged(p, "token", TRUE) EXCEPT !.tokened = TRUE], 201)
            /\ UNCHANGED afaults
  /\ UNCHANGED <<srvVars, clock, grants, revoked, itemVars, users, useq, aissued>>

RegStep(p) == RegStart(p) \/ RegSelect(p) \/ RegHash(p) \/ RegInsert(p) \/ RegToken(p)

NextAuth == \E p \in Procs : RegStep(p)

\* The service as it starts, the items table holding the sample rows.
InitAuth == Init /\ items = SeedRows(NumSeed)

SpecAuth == InitAuth /\ [][NextAuth]_vars

(***************************************************************************)
(* authenticateToken and POST /api/auth/login, /refresh and /logout        *)
(***************************************************************************)
\* s.split(' '): the runs of words between the spaces of s.
RECURSIVE SplitSpace(_)
SplitSpace(s) ==
  IF \A i \in DOMAIN s : s[i].word # " " THEN <<s>>
  ELSE LET k == CHOOSE i \in DOMAIN s : s[i].word = " " /\ \A j \in 1..(i - 1) : s[j].word # " "
       IN <<SubSeq(s, 1, k - 1)>> \o SplitSpace(SubSeq(s, k + 1, Len(s)))

\* authenticateToken(req, res, next) for the Authorization header hd at time
\* t: the status it responds with (0 when it does not respond), whether it
\* calls next, and req.user as it leaves it.
AuthenticateToken(hd, t) ==
  LET Falsy(x) == x = NoText \/ x = <<>>
      token == IF Falsy(hd) THEN hd
               ELSE IF Len(SplitSpace(hd)) >= 2 THEN SplitSpace(hd)[2] ELSE NoText
  IN IF Falsy(token) THEN [status |-> 401, next |-> FALSE, user |-> NoDecoded]
     ELSE IF JwtVerify(token, JwtSecret, t)
          THEN [status |-> 0, next |-> TRUE, user |-> [claims |-> token[1].claims, iat |-> token[1].iat, exp |-> token[1].exp]]
          ELSE [status |-> 403, next |-> FALSE, user |-> NoDecoded]

\* A login, refresh or logout: what it was sent, its locals and its response.
BlankSess ==
  [op |-> "none", email |-> <<>>, password |-> <<>>, header |-> NoText, token |-> NoText,
   user |-> NoDecoded, next |-> FALSE, uid |-> NoUser, found |-> {}, status |-> 0,
   accessToken |-> NoText, refreshToken |-> NoText, dead |-> FALSE, outage |-> FALSE]

\* What the clients send: login bodies <<email, password>>, refresh tokens
\* and Authorization headers.  G are the tokens handed out so far; a client
\* may also send a token signed with a key of its own, or none.
LoginBodies ==
  {<<Chars_adminEmail, Chars_admin \o <<"1", "2", "3">> >>, <<Chars_adminEmail, <<"x">> >>,
   <<<<"B", "@", "x", ".", "i", "o">>, <<"s", "e", "c", "r", "e", "t">> >>,
   <<<<"c", "@", "x", ".", "i", "o">>, <<"x">> >>, <<<<"a", "x">>, <<>> >>}
RefreshBodies(G) ==
  {NoText, <<>>, <<Word("junk")>>, Sign([id |-> 1], "guess", 0, RefreshExpiry)} \cup {g.refreshToken : g \in G}
    \cup {g.accessToken : g \in G}
Headers(G) ==
  {NoText, <<>>, <<Word("Bearer")>>}
    \cup UNION {{<<Word("Bearer"), Word(" ")>> \o t, <<Word("Token"), Word(" ")>> \o t,
                 <<Word("Bearer")>> \o t, <<Word("Bearer"), Word(" "), Word(" ")>> \o t,
                 <<Word("Bearer"), Word(" ")>> \o t \o <<Word(" "), Word("x")>>,
                 <<Word("Bearer"), Word(" ")>> \o t \o <<Word("x")>>} :
                t \in {Sign([id |-> 1], "guess", 0, RefreshExpiry)} \cup {g.accessToken : g \in G} \cup {g.refreshToken : g \in G}}

\* res.status(status).json(...) or res.json(...): the request ends.
SessRespond(p, hp, status) ==
  /\ aresp' = [hp EXCEPT !.status = status]
  /\ ah' = [ah EXCEPT ![p] = BlankSess]
  /\ apc' = [apc EXCEPT ![p] = "idle"]

\* catch (error) { res.status(status).json(...) } after a store call failed
\* in an outage.
SessOutage(p, status) ==
  /\ SessRespond(p, [ah[p] EXCEPT !.outage = TRUE], status)
  /\ afaults' = afaults + 1

\* router.post('/login', [...], async (req, res) => { ... })
Login(p) ==
  \/ \* the validators, then the request waits for the SELECT
     /\ apc[p] = "idle"
     /\ \A q \in Procs : q < p => apc[q] # "idle"
     /\ aissued < MaxSessReqs
     /\ aissued' = aissued + 1
     /\ \E b \in LoginBodies :
          LET hp == [BlankSess EXCEPT !.op = "login", !.email = NormalizeEmail(b[1]), !.password = b[2]]
          IN IF IsEmail(b[1]) /\ b[2] # <<>>
             THEN /\ ah' = [ah EXCEPT ![p] = hp]
                  /\ apc' = [apc EXCEPT ![p] = "login_select"]
                  /\ UNCHANGED aresp
             ELSE /\ aresp' = [hp EXCEPT !.status = 400]
                  /\ UNCHANGED <<ah, apc>>
     /\ UNCHANGED <<srvVars, clock, grants, revoked, itemVars, users, tokens, useq, afaults>>
  \/ \* SELECT id, email, password, username, role FROM users WHERE email = $1
     /\ apc[p] = "login_select"
     /\ \E ok \in RegOutcomes :
          IF ~ok THEN SessOutage(p, 500)
          ELSE /\ LET found == {u \in users : u.email = ah[p].email}
                  IN IF found = {} THEN SessRespond(p, ah[p], 401)
                     ELSE /\ ah' = [ah EXCEPT ![p].found = found]
                          /\ apc' = [apc EXCEPT ![p] = "login_compare"]
                          /\ UNCHANGED aresp
               /\ UNCHANGED afaults
     /\ UNCHANGED <<srvVars, clock, grants, revoked, itemVars, users, tokens, useq, aissued>>
  \/ \* await bcrypt.compare(password, user.password); then the two jwt.sign
     /\ apc[p] = "login_compare"
     /\ LET user == CHOOSE u \in ah[p].found : TRUE
        IN IF user.password # BcryptHash(ah[p].password) THEN SessRespond(p, ah[p], 401)
           ELSE /\ ah' = [ah EXCEPT ![p].uid = user.id,
                                    ![p].accessToken =
                                      Sign([id |-> user.id, email |-> user.email, username |-> user.username],
                                           JwtSecret, clock, AccessExpiry),
                                    ![p].refreshToken = Sign([id |-> user.id], JwtSecret, clock, RefreshExpiry)]
                /\ apc' = [apc EXCEPT ![p] = "login_insert"]
                /\ UNCHANGED aresp
     /\ UNCHANGED <<srvVars, clock, grants, revoked, itemVars, users, tokens, useq, aissued, afaults>>
  \/ \* INSERT INTO refresh_tokens (user_id, token, expires_at) ...; then 200
     /\ apc[p] = "login_insert"
     /\ \E ok \in RegOutcomes :
          IF ~ok THEN SessOutage(p, 500) /\ UNCHANGED <<tokens, grants, revoked>>
          ELSE /\ tokens' = tokens \cup {TokenRow(ah[p].uid, ah[p].refreshToken, clock)}
               /\ grants' = grants \cup {[user_id |-> ah[p].uid, accessToken |-> ah[p].accessToken,
                                          refreshToken |-> ah[p].refreshToken]}
               /\ revoked' = revoked \ {ah[p].refreshToken}
               /\ SessRespond(p, ah[p], 200)
               /\ UNCHANGED afaults
     /\ UNCHANGED <<srvVars, clock, itemVars, users, useq, aissued>>

\* router.post('/refresh', async (req, res) => { ... })
Refresh(p) ==
  \/ \* if (!refreshToken) 401; else the request waits for the SELECT
     /\ apc[p] = "idle"
     /\ \A q \in Procs : q < p => apc[q] # "idle"
     /\ aissued < MaxSessReqs
     /\ aissued' = aissued + 1
     /\ \E t \in RefreshBodies(grants) :
          LET hp == [BlankSess EXCEPT !.op = "refresh", !.token = t, !.dead = t \in revoked]
          IN IF t = NoText \/ t = <<>>
             THEN /\ aresp' = [hp EXCEPT !.status = 401]
                  /\ UNCHANGED <<ah, apc>>
             ELSE /\ ah' = [ah EXCEPT ![p] = hp]
                  /\ apc' = [apc EXCEPT ![p] = "refresh_select"]
                  /\ UNCHANGED aresp
     /\ UNCHANGED <<srvVars, clock, grants, revoked, itemVars, users, tokens, useq, afaults>>
  \/ \* SELECT user_id FROM refresh_tokens WHERE token = $1 AND expires_at > NOW();
     \* then jwt.verify(refreshToken, JWT_SECRET), which throws into the catch
     /\ apc[p] = "refresh_select"
     /\ \E ok \in RegOutcomes :
          IF ~ok THEN SessOutage(p, 401)
          ELSE /\ IF {r \in tokens : r.token = ah[p].token /\ r.expires_at > clock} = {}
                     \/ ~JwtVerify(ah[p].token, JwtSecret, clock)
                  THEN SessRespond(p, ah[p], 401)
                  ELSE /\ ah' = [ah EXCEPT ![p].user = [claims |-> ah[p].token[1].claims, iat |-> ah[p].token[1].iat,
                                                      exp |-> ah[p].token[1].exp]]
                       /\ apc' = [apc EXCEPT ![p] = "refresh_user"]
                       /\ UNCHANGED aresp
               /\ UNCHANGED afaults
     /\ UNCHANGED <<srvVars, clock, grants, revoked, itemVars, users, tokens, useq, aissued>>
  \/ \* SELECT id, email, username, role FROM users WHERE id = $1; then
     \* jwt.sign and res.json({ accessToken })
     /\ apc[p] = "refresh_user"
     /\ \E ok \in RegOutcomes :
          IF ~ok THEN SessOutage(p, 401)
          ELSE /\ LET found == {u \in users : u.id = ah[p].user.claims.id}
                  IN IF found = {} THEN SessRespond(p, ah[p], 401)
                     ELSE LET user == CHOOSE u \in found : TRUE
                          IN SessRespond(p, [ah[p] EXCEPT !.accessToken =
                                               Sign([id |-> user.id, email |-> user.email,
                                                     username |-> user.username],
                                                    JwtSecret, clock, AccessExpiry)], 200)
               /\ UNCHANGED afaults
     /\ UNCHANGED <<srvVars, clock, grants, revoked, itemVars, users, tokens, useq, aissued>>

\* Mutant: the DELETE removes one row of the user.
DeleteTokens_one(T, uid) ==
  IF \E r \in T : r.user_id = uid THEN T \ {CHOOSE r \in T : r.user_id = uid} ELSE T

\* DELETE FROM refresh_tokens WHERE user_id = $1
DeleteTokens(T, uid) == {r \in T : r.user_id # uid}

\* router.post('/logout', authenticateToken, async (req, res) => { ... })
Logout(p) ==
  \/ \* authenticateToken: 401, 403, or next() into the handler's DELETE
     /\ apc[p] = "idle"
     /\ \A q \in Procs : q < p => apc[q] # "idle"
     /\ aissued < MaxSessReqs
     /\ aissued' = aissued + 1
     /\ \E hd \in Headers(grants) :
          LET a == AuthenticateToken(hd, clock)
              hp == [BlankSess EXCEPT !.op = "logout", !.header = hd, !.user = a.user, !.next = a.next]
          IN IF a.next
             THEN /\ ah' = [ah EXCEPT ![p] = hp]
                  /\ apc' = [apc EXCEPT ![p] = "logout_delete"]
                  /\ UNCHANGED aresp
             ELSE /\ aresp' = [hp EXCEPT !.status = a.status]
                  /\ UNCHANGED <<ah, apc>>
     /\ UNCHANGED <<srvVars, clock, grants, revoked, itemVars, users, tokens, useq, afaults>>
  \/ \* DELETE FROM refresh_tokens WHERE user_id = $1; then 200
     /\ apc[p] = "logout_delete"
     /\ \E ok \in RegOutcomes :
          IF ~ok THEN SessOutage(p, 500) /\ UNCHANGED <<tokens, revoked>>
          ELSE /\ tokens' = DeleteTokens(tokens, ah[p].user.claims.id)
               /\ revoked' = revoked \cup {g.refreshToken : g \in {x \in grants : x.user_id = ah[p].user.claims.id}}
               /\ SessRespond(p, ah[p], 200)
               /\ UNCHANGED afaults
     /\ UNCHANGED <<srvVars, clock, grants, itemVars, users, useq, aissued>>

\* Time passes: a quarter of an hour, a week.
Advance ==
  /\ \E t \in {AccessExpiry, RowExpiry, RowExpiry + AccessExpiry} : t > clock /\ clock' = t
  /\ UNCHANGED <<srvVars, grants, revoked, itemVars, users, tokens, useq, apc, ah, aissued, afaults, aresp>>

NextSession == (\E p \in Procs : Login(p) \/ Refresh(p) \/ Logout(p)) \/ Advance

\* The service at a quiet moment, admin and bob registered: nobody has logged
\* in yet, or admin has, once, at time 0.
InitSession ==
  /\ items = SeedRows(NumSeed) /\ seq = NumSeed
  /\ now = 0
  /\ cache = EmptyCache
  /\ pc = [p \in Procs |-> "idle"]
  /\ h = [p \in Procs |-> Blank]
  /\ issued = 0
  /\ faults = 0
  /\ wide = FALSE
  /\ resp = Blank
  /\ last = [r \in Resources |-> NoSummary]
  /\ held = items
  /\ grants \in {{}, {[user_id |-> 1,
                        accessToken |-> Sign([id |-> 1, email |-> Chars_adminEmail,
                                              username |-> Chars_admin], JwtSecret, 0, AccessExpiry),
                        refreshToken |-> Sign([id |-> 1], JwtSecret, 0, RefreshExpiry)]}}
  /\ users = SeedUsers \cup {User(2, <<"b", "@", "x", ".", "i", "o">>, <<"b", "o", "b">>,
                                  BcryptHash(<<"s", "e", "c", "r", "e", "t">>))}
  /\ tokens = {TokenRow(g.user_id, g.refreshToken, 0) : g \in grants}
  /\ useq = 2
  /\ apc = [p \in Procs |-> "idle"]
  /\ ah = [p \in Procs |-> BlankSess]
  /\ aissued = 0
  /\ afaults = 0
  /\ aresp = BlankSess
  /\ clock = 0
  /\ revoked = {}
  /\ SrvInit

SpecSession == InitSession /\ [][NextSession]_vars

(***************************************************************************)
(* The process: Redis client, startServer, gracefulShutdown, GET /health   *)
(* behind metricsMiddleware.                                               *)
(***************************************************************************)
\* retries > 10; retries * 100 and 3000, in milliseconds.
RetryLimit == 10
RetryStep == 100
RetryCap == 3000

\* Mutant: the strategy gives up from the tenth retry on.
ReconnectStrategy_offByOne(retries) ==
  IF retries >= RetryLimit THEN [error |-> TRUE, delay |-> 0]
  ELSE [error |-> FALSE, delay |-> Min(retries * RetryStep, RetryCap)]

\* reconnectStrategy: (retries) => retries > 10 ? new Error(...) : Math.min(retries * 100, 3000)
ReconnectStrategy(retries) ==
  IF retries > RetryLimit THEN [error |-> TRUE, delay |-> 0]
  ELSE [error |-> FALSE, delay |-> Min(retries * RetryStep, RetryCap)]

\* The socket of the Redis client.  A connection attempt succeeds or fails;
\* after a failure the client asks reconnectStrategy(retries) and waits for
\* the delay it returns, or closes for good when it returns an Error; a
\* connection that is up may drop.  startServer waits for the first
\* connection: await connectRedis() returns when it is up, and throws into
\* the catch, which calls process.exit(1), when the client closes.
RedisSocket ==
  /\ exited.by = "none"
  /\ \/ /\ rclient.state = "connecting"
        /\ rclient' = [rclient EXCEPT !.state = "ready", !.retries = 0, !.delay = 0, !.opened = TRUE]
        /\ boot' = IF boot = "redis" THEN "probe" ELSE boot
        /\ UNCHANGED exited
     \/ /\ rclient.state = "connecting"
        /\ LET r == ReconnectStrategy(rclient.retries)
           IN IF r.error
              THEN /\ rclient' = [rclient EXCEPT !.state = "closed", !.asked = rclient.retries]
                   /\ IF boot = "redis" THEN boot' = "failed" /\ exited' = [code |-> 1, by |-> "startServer"]
                      ELSE UNCHANGED <<boot, exited>>
              ELSE /\ rclient' = [rclient EXCEPT !.state = "waiting", !.asked = rclient.retries,
                                                 !.delay = r.delay, !.retries = rclient.retries + 1]
                   /\ UNCHANGED <<boot, exited>>
     \/ /\ rclient.state = "waiting"
        /\ rclient' = [rclient EXCEPT !.state = "connecting"]
        /\ UNCHANGED <<boot, exited>>
     \/ /\ rclient.state = "ready"
        /\ rclient' = [rclient EXCEPT !.state = "connecting"]
        /\ UNCHANGED <<boot, exited>>
  /\ UNCHANGED <<itemVars, authVars, pool, down, gauge, conns>>

\* Mutant: the server listens whatever the probe query returns.
Probe_listenAnyway ==
  /\ exited.by = "none"
  /\ boot = "probe"
  /\ \E ok \in IF pool.ending THEN {FALSE} ELSE {TRUE, FALSE} :
       /\ pool' = [pool EXCEPT !.probed = ok]
       /\ boot' = "listening"
       /\ UNCHANGED exited
  /\ UNCHANGED <<itemVars, authVars, rclient, down, gauge, conns>>

\* startServer: await pool.query('SELECT 1'); then app.listen(PORT, ...), or
\* the catch and process.exit(1).  A pool on which end() was called rejects
\* every query.
Probe ==
  /\ exited.by = "none"
  /\ boot = "probe"
  /\ \E ok \in IF pool.ending THEN {FALSE} ELSE {TRUE, FALSE} :
       IF ok THEN /\ pool' = [pool EXCEPT !.probed = TRUE]
                  /\ boot' = "listening"
                  /\ UNCHANGED exited
       ELSE /\ boot' = "failed"
            /\ exited' = [code |-> 1, by |-> "startServer"]
            /\ UNCHANGED pool
  /\ UNCHANGED <<itemVars, authVars, rclient, down, gauge, conns>>

\* process.on('SIGTERM' | 'SIGINT', () => gracefulShutdown(signal)): a run of
\* gracefulShutdown starts and waits for pool.end().
Signal ==
  /\ exited.by = "none"
  /\ Len(down) < MaxSignals
  /\ \E s \in {"SIGTERM", "SIGINT"} :
       down' = Append(down, [signal |-> s, at |-> "end", first |-> pool.ends = 0])
  /\ pool' = [pool EXCEPT !.ending = TRUE, !.ends = pool.ends + 1]
  /\ UNCHANGED <<itemVars, authVars, boot, rclient, exited, gauge, conns>>

\* gracefulShutdown after its awaits.  pool.end() returns; called again on a
\* pool that is ending it returns or rejects, depending on the version of
\* pg.  redisClient.quit() returns on a connection that is up, may reject on
\* it, rejects on a client that has closed, and waits on one that reconnects.
GracefulShutdown(i) ==
  /\ exited.by = "none"
  /\ \/ /\ down[i].at = "end"
        /\ \E ok \in IF down[i].first THEN {TRUE} ELSE {TRUE, FALSE} :
             IF ok THEN /\ down' = [down EXCEPT ![i].at = "quit"]
                        /\ rclient' = [rclient EXCEPT !.quits = rclient.quits + 1]
                        /\ UNCHANGED exited
             ELSE exited' = [code |-> 1, by |-> "end"] /\ UNCHANGED <<down, rclient>>
     \/ /\ down[i].at = "quit"
        /\ \E ok \in IF rclient.state = "ready" THEN {TRUE, FALSE} ELSE {FALSE} :
             /\ ~ok => rclient.state \in {"ready", "closed"}
             /\ exited' = [code |-> IF ok THEN 0 ELSE 1, by |-> IF ok THEN "done" ELSE "quit"]
        /\ UNCHANGED <<down, rclient>>
  /\ UNCHANGED <<itemVars, authVars, boot, pool, gauge, conns>>

\* GET /health on connection c: metricsMiddleware, then the handler.  The
\* 'finish' listener runs when the response has been sent; on a connection
\* closed before that the response never finishes.
Health(c) ==
  /\ exited.by = "none"
  /\ boot = "listening"
  /\ \/ \* activeConnections.inc(); next(); then await pool.query('SELECT NOW()')
        /\ conns[c].at = "none"
        /\ \A d \in 1..MaxConns : d < c => conns[d].at # "none"
        /\ gauge' = gauge + 1
        /\ conns' = [conns EXCEPT ![c].at = "query"]
     \/ \* services.postgres; then await redisClient.ping()
        /\ conns[c].at = "query"
        /\ \E ok \in IF pool.ending THEN {FALSE} ELSE {TRUE, FALSE} :
             conns' = [conns EXCEPT ![c].at = "ping",
                                    ![c].postgres = IF ok THEN "connected" ELSE "disconnected",
                                    ![c].status = IF ok THEN @ ELSE "degraded"]
        /\ UNCHANGED gauge
     \/ \* services.redis; res.status(statusCode).json(health)
        /\ conns[c].at = "ping"
        /\ \E reply \in IF rclient.state = "ready" THEN {"PONG", "other", "throws"} ELSE {"throws"} :
             /\ reply = "throws" => rclient.state \in {"ready", "closed"}
             /\ LET status == IF reply = "throws" THEN "degraded" ELSE conns[c].status
                IN conns' = [conns EXCEPT ![c].at = IF conns[c].open THEN "sent" ELSE "lost",
                                          ![c].redis = IF reply = "PONG" THEN "connected" ELSE "disconnected",
                                          ![c].status = status,
                                          ![c].code = IF status = "healthy" THEN 200 ELSE 503]
        /\ gauge' = IF conns[c].open THEN gauge - 1 ELSE gauge
  /\ UNCHANGED <<itemVars, authVars, boot, rclient, pool, down, exited>>

\* The client closes connection c before the response has been sent.
ConnClose(c) ==
  /\ exited.by = "none"
  /\ conns[c].at \in {"query", "ping"}
  /\ conns[c].open
  /\ conns' = [conns EXCEPT ![c].open = FALSE]
  /\ UNCHANGED <<itemVars, authVars, boot, rclient, pool, down, exited, gauge>>

NextServer ==
  \/ RedisSocket \/ Probe \/ Signal
  \/ \E i \in 1..MaxSignals : i <= Len(down) /\ GracefulShutdown(i)
  \/ \E c \in 1..MaxConns : Health(c) \/ ConnClose(c)

\* The process as index.js has been loaded, the items table holding the
\* sample rows.
SpecServer == InitAuth /\ [][NextServer]_vars

(***************************************************************************)
(* Properties.                                                             *)
(***************************************************************************)
NoFault(hp) == ~StoreFailed(hp) /\ ~CacheFailed(hp)

\* A point read of a row id, answered with no other request on that id in flight.
PointReadAlone == resp.op = "get" /\ resp.status # 400 /\ PgInt(resp.id) \notin resp.shared

\* C1: a getById(id) answered after update(id, ...) was acknowledged with
\* success, no other request on that id being in flight, returns the name and
\* description the update acknowledged, never the ones from before it.
C1_GetAfterUpdateIsFresh ==
  (PointReadAlone /\ resp.status = 200 /\ resp.prev.op = "put" /\ resp.prev.status = 200)
  => (resp.body.name = resp.prev.body.name /\ resp.body.description = resp.prev.body.description)

\* The read after an update, for requests that spell the id the same way.
SameSpellingGetAfterUpdateIsFresh ==
  (PointReadAlone /\ resp.status = 200 /\ resp.prev.op = "put" /\ resp.prev.status = 200
     /\ resp.id = resp.prev.id)
  => (resp.body.name = resp.prev.body.name /\ resp.body.description = resp.prev.body.description)

\* C9: delete(id) returns the removed Record, and a getById(id) answered after
\* the delete was acknowledged, no other request on that id being in flight,
\* is answered 404, whether or not the point entry was cached before.
C9_GetAfterDeleteIsNotFound ==
  /\ (resp.op = "delete" /\ resp.status = 200) => resp.body.item.id = PgInt(resp.id)
  /\ (PointReadAlone /\ NoFault(resp) /\ resp.prev.op = "delete" /\ resp.prev.status = 200)
     => resp.status = 404

\* The read after a delete, for requests that spell the id the same way.
SameSpellingGetAfterDeleteIsNotFound ==
  (PointReadAlone /\ NoFault(resp) /\ resp.prev.op = "delete" /\ resp.prev.status = 200
     /\ resp.id = resp.prev.id)
  => resp.status = 404

\* The request of handler p is answered in this step (resp' is its record).
Answered(p) == pc[p] # "idle" /\ pc'[p] = "idle"

Mutation(op) == IF op = "put" THEN "update" ELSE IF op = "delete" THEN "delete" ELSE "insert"

\* The point key of row n as a read of /items/n builds it.
RowKey(n) == PointKey(NumStr(n))

\* C2: a successful update or delete has, in this order, mutated the store,
\* deleted the point entry of the row it mutated, scanned the listing keys
\* and deleted every key the scan found, all before the response is sent:
\* the row's point entry is gone from the cache when the point delete
\* returns, the scan returns every listing key then cached, and none of them
\* is cached when the request is answered 200.
C2_InvalidateBeforeAck ==
  [][\A p \in Procs :
       /\ (pc[p] \in {"put_delPoint", "delete_delPoint"} /\ pc'[p] \in {"put_keys", "delete_keys"})
          => RowKey(PgInt(h[p].id)) \notin DOMAIN cache'
       /\ (pc[p] \in {"put_keys", "delete_keys"} /\ pc'[p] \in {"put_del", "delete_del"})
          => h'[p].keys = CacheKeys(cache)
       /\ (Answered(p) /\ resp'.op \in {"put", "delete"} /\ resp'.status = 200)
          => /\ \/ pc[p] \in {"put_keys", "delete_keys"} /\ CacheKeys(cache) = {}
                   /\ Whats(resp') = <<Mutation(resp'.op), "del", "keys">>
                \/ pc[p] \in {"put_del", "delete_del"}
                   /\ Whats(resp') = <<Mutation(resp'.op), "del", "keys", "delKeys">>
             /\ resp'.keys \cap DOMAIN cache' = {}
             /\ \A i \in DOMAIN resp'.log : resp'.log[i].ok]_vars

\* The order of the calls of a successful update or delete, with the point
\* key taken as the request spelled it: store mutation, point delete, scan,
\* delete of the scanned keys, response.
InvalidateAsSpelledBeforeAck ==
  [][\A p \in Procs :
       /\ (pc[p] \in {"put_delPoint", "delete_delPoint"} /\ pc'[p] \in {"put_keys", "delete_keys"})
          => PointKey(h[p].id) \notin DOMAIN cache'
       /\ (pc[p] \in {"put_keys", "delete_keys"} /\ pc'[p] \in {"put_del", "delete_del"})
          => h'[p].keys = CacheKeys(cache)
       /\ (Answered(p) /\ resp'.op \in {"put", "delete"} /\ resp'.status = 200)
          => /\ Whats(resp') \in {<<Mutation(resp'.op), "del", "keys">>,
                                  <<Mutation(resp'.op), "del", "keys", "delKeys">>}
             /\ resp'.keys \cap DOMAIN cache' = {}]_vars

\* A page of the store as it is now, for the limit and offset of a listing.
IsPageOf(data, S, limit, offset) == \E ord \in Orders(S) : data = WireRows(PageOf(ord, limit, offset))

\* C3: a listing read answered 200 after create was acknowledged, no other
\* request on the listing being in flight, is tagged `database`, its count is
\* the number of rows of the store, which holds the new record, and its data
\* is the page of the store for its limit and offset.
C3_ListAfterCreateIsFresh ==
  [][\A p \in Procs :
       (Answered(p) /\ resp'.op = "list" /\ resp'.status = 200 /\ LIST \notin resp'.shared
          /\ resp'.prev.op = "post" /\ resp'.prev.status = 201)
       => /\ resp'.body.source = "database"
          /\ resp'.body.count = Cardinality(items')
          /\ resp'.prev.body \in {WireRow(r) : r \in items'}
          /\ IsPageOf(resp'.body.data, items', resp'.limit, resp'.offset)]_vars

\* A listing answered after a create that removed listing entries cached before it.
C3_Witness ==
  /\ resp.op = "list" /\ resp.status = 200 /\ LIST \notin resp.shared
  /\ resp.prev.op = "post" /\ resp.prev.status = 201
  /\ resp.prev.calls = <<"insert", "keys", "delKeys">>
  /\ resp.prev.body \in {resp.body.data[i] : i \in DOMAIN resp.body.data}

\* C4: a listing read or a point read during which a cache call (get or set)
\* failed is not answered with a server error: it is answered from the store.
C4_CacheErrorNeverFailsRead ==
  (resp.op \in {"list", "get"} /\ CacheFailed(resp)) => resp.status # 500

\* C5: a create, update or delete whose store mutation succeeded and whose
\* invalidation then met a failing cache call is answered 201/200.
C5_InvalidationIsBestEffort ==
  (resp.op \in {"post", "put", "delete"} /\ resp.row # NoBody /\ CacheFailed(resp))
  => resp.status \in {200, 201}

\* C6: no store query is issued twice by one request, and a request one of
\* whose store queries failed is answered 500, has made no cache call that
\* writes or deletes, and its failing step leaves the cache as it was.
C6_StoreErrorIsTerminal ==
  /\ [](/\ \A i, j \in StoreCalls(resp) : resp.log[i].what = resp.log[j].what => i = j
        /\ StoreFailed(resp) => (resp.status = 500 /\ CacheWrites(resp) = {}))
  /\ [][\A p \in Procs : (Answered(p) /\ StoreFailed(resp')) => cache' = cache]_vars

C6_Witness ==
  /\ StoreFailed(resp) /\ resp.status = 500
  /\ resp.op \in {"post", "put", "delete"}
  /\ CacheKeys(cache) # {}

\* C7: a listing read that misses the cache is answered with the store's
\* count and page, tagged `database`; the same listing read again, with no
\* write in between and its entry not expired, is answered from the cache
\* with the same count and data, tagged `cache`, without a store query.
C7_RepeatedListIsCached ==
  /\ []((resp.op = "list" /\ LIST \notin resp.shared /\ ~CacheFailed(resp)
           /\ resp.prev.op = "list" /\ resp.prev.status = 200 /\ resp.prev.body.source = "database"
           /\ resp.prev.key = resp.key /\ resp.prev.ttlOk)
        => (/\ resp.status = 200
            /\ resp.body.source = "cache"
            /\ resp.body.count = resp.prev.body.count
            /\ resp.body.data = resp.prev.body.data
            /\ StoreCalls(resp) = {}))
  /\ [][\A p \in Procs :
          (Answered(p) /\ resp'.op = "list" /\ resp'.status = 200 /\ LIST \notin resp'.shared
             /\ StoreCalls(resp') # {})
          => /\ resp'.body.source = "database"
             /\ resp'.body.count = Cardinality(items')
             /\ IsPageOf(resp'.body.data, items', resp'.limit, resp'.offset)]_vars

\* The empty store: count 0 and no rows from the store, then the same from the cache.
C7_Witness ==
  /\ resp.op = "list" /\ resp.status = 200 /\ resp.body.source = "cache"
  /\ resp.prev.op = "list" /\ resp.prev.body.source = "database" /\ resp.prev.ttlOk
  /\ resp.body.count = 0 /\ resp.body.data = <<>>
  /\ resp.limit = DefaultLimit /\ resp.offset = DefaultOffset

\* The provenance tag of a response body, "none" when it carries none.
Tag(body) == IF "source" \in DOMAIN body THEN body.source ELSE "none"

C11_PagingIsNormalized ==
  /\ \A p \in Procs :
       pc[p] \in {"list_get", "list_count", "list_page", "list_setEx"}
       => /\ h[p].limit <= MaxLimit
          /\ h[p].offset >= 0
          /\ h[p].key = ListKey(h[p].limit, h[p].offset)
  /\ \A k \in CacheKeys(cache) :
       \E l \in 0..MaxLimit, o \in 0..MaxLimit : k = ListKey(l, o)

\* The limit alone: never over the maximum.
LimitIsCapped ==
  \A p \in Procs : pc[p] \in {"list_get", "list_count", "list_page", "list_setEx"} => h[p].limit <= MaxLimit

\* The rows of a listing response come with created_at never increasing.
NewestFirst(data) ==
  \A i, j \in DOMAIN data : i < j => data[i].created_at[2] >= data[j].created_at[2]

\* Rows of a listing response with equal created_at come by ascending id.
TiesByIdAscending(data) ==
  \A i, j \in DOMAIN data :
    (i < j /\ data[i].created_at[2] = data[j].created_at[2]) => data[i].id < data[j].id

\* C12: a listing read answered 200, from the cache or from the store,
\* returns its records newest-first by creation timestamp, records with the
\* same creation timestamp by ascending identifier.
C12_NewestFirstTiesByIdAscending ==
  (resp.op = "list" /\ resp.status = 200)
  => (NewestFirst(resp.body.data) /\ TiesByIdAscending(resp.body.data))

\* A listing read answered 200 returns its records newest-first.
ListingIsNewestFirst ==
  (resp.op = "list" /\ resp.status = 200) => NewestFirst(resp.body.data)

\* The point entries of the cache: every key that is not a listing key.
PointKeys(c) == DOMAIN c \ CacheKeys(c)

\* C13: every point entry item:<id> of the cache holds a row of that id, as
\* the store returned it to a getById, never a not-found result; and a
\* getById answered not-found leaves the cache (and the store) as it was.
C13_NotFoundIsNeverCached ==
  /\ [](\A k \in PointKeys(cache) :
          /\ DOMAIN JsonParse(cache[k].val) = DOMAIN WireRow(Row(0, <<>>, <<>>, 0))
          /\ \E id \in IdInputs(TRUE) :
               IdValid(id) /\ k = PointKey(id) /\ JsonParse(cache[k].val).id = PgInt(id))
  /\ [][\A p \in Procs :
          (Answered(p) /\ resp'.op = "get" /\ resp'.status = 404)
          => (cache' = cache /\ items' = items /\ Whats(resp') = <<"get", "select">>)]_vars

\* A getById answered not-found while other rows are cached, its own key not.
C13_Witness ==
  /\ resp.op = "get" /\ resp.status = 404
  /\ PointKeys(cache) # {}
  /\ resp.key \notin DOMAIN cache

\* C14: an update or a delete whose store statement finds no row of its id
\* is answered 404 (or 500 if the statement itself failed), having made no
\* cache call, and leaves the store and the cache as they were; and an
\* update or delete is answered 404 only when no row of its id exists.
C14_MissingIdIsNotFound ==
  [][\A p \in Procs :
       /\ (pc[p] \in {"put_update", "delete_query"} /\ pc'[p] # pc[p]
             /\ SelectById(items, h[p].id) = {})
          => /\ Answered(p) /\ resp'.status \in {404, 500}
             /\ resp'.status = 404 <=> ~StoreFailed(resp')
             /\ items' = items /\ cache' = cache
       /\ (Answered(p) /\ resp'.op \in {"put", "delete"} /\ resp'.status = 404)
          => /\ SelectById(items, resp'.id) = {}
             /\ resp'.body = NotFound
             /\ Whats(resp') = <<Mutation(resp'.op)>>
             /\ items' = items /\ cache' = cache]_vars

\* An update or delete answered 404 while listing entries are cached.
C14_Witness ==
  /\ resp.op \in {"put", "delete"} /\ resp.status = 404
  /\ CacheKeys(cache) # {}
  /\ SelectById(items, resp.id) = {}

\* C15: whenever a read writes a cache entry (the setEx of a listing read or
\* of a point read succeeds), the key it writes is absent from the cache.
C15_SetOnlyWhenAbsent ==
  [][\A p \in Procs :
       (pc[p] \in {"list_setEx", "get_setEx"} /\ Answered(p) /\ resp'.status = 200)
       => h[p].key \notin DOMAIN cache]_vars

\* The spellings of a row id that the id validator accepts.
Spellings(n) == {id \in IdInputs(TRUE) : IdValid(id) /\ PgInt(id) = n}

\* C16: every point entry item:<id> of the cache holds, field for field, the
\* serialization of one row version that the items table held for that id
\* at some time.
C16_PointEntryWasInStore ==
  \A k \in PointKeys(cache) :
    \E r \in held :
      /\ JsonParse(cache[k].val) = WireRow(r)
      /\ k \in {PointKey(id) : id \in Spellings(r.id)}

\* A point entry holding a version of a row that the table no longer holds.
C16_Witness ==
  \E k \in PointKeys(cache) :
    /\ \A r \in items : JsonParse(cache[k].val) # WireRow(r)
    /\ \E r \in items : JsonParse(cache[k].val).id = r.id

\* C17: a point read keeps the row its store query returned while other
\* requests run, and its setEx writes that row under its key whatever the
\* table holds by then and whatever was invalidated meanwhile; a point read
\* that finds an entry answers with it without querying the store.  So a
\* read that queried the store before an update committed can write the
\* pre-update row after the update's invalidation, and a later read is
\* served it after the update was acknowledged.
C17_ReadWritesItsSnapshot ==
  [][\A p \in Procs :
       /\ (pc[p] = "get_setEx" /\ pc'[p] = "get_setEx") => h'[p].row = h[p].row
       /\ (pc[p] = "get_setEx" /\ Answered(p) /\ resp'.status = 200)
          => /\ h[p].key \in DOMAIN cache'
             /\ cache'[h[p].key] = [val |-> StringifyRow(h[p].row), ttl |-> PointTTL]
             /\ resp'.body = SendRow(h[p].row)
       /\ (pc[p] = "get_get" /\ Answered(p) /\ resp'.status = 200)
          => /\ h[p].key \in DOMAIN cache
             /\ resp'.body = JsonParse(cache[h[p].key].val)
             /\ StoreCalls(resp') = {}
             /\ cache' = cache]_vars

\* PUT /items/1 was acknowledged with the updated row, which the table
\* holds, and a GET /items/1 that ran with no other request in flight is
\* answered from the cache with the row as it was before the update.
C17_Witness ==
  /\ \A p \in Procs : pc[p] = "idle"
  /\ last[LIST].op = "put" /\ last[LIST].status = 200 /\ last[LIST].id = <<"1">>
  /\ last[LIST].body \in {WireRow(r) : r \in items}
  /\ resp.op = "get" /\ resp.id = <<"1">> /\ resp.status = 200
  /\ resp.shared = {}
  /\ Whats(resp) = <<"get">>
  /\ resp.body.id = last[LIST].body.id
  /\ resp.body # last[LIST].body

\* The limits and offsets of the listing keys.
ListParams == {1, DefaultLimit, MaxLimit} \X {0, 1}

\* The entry under key k holds what a read of k would get from the store now.
Fresh(k) ==
  IF MatchesItemsStar(k)
  THEN \E lo \in ListParams :
         /\ k = ListKey(lo[1], lo[2])
         /\ JsonParse(cache[k].val).count = Cardinality(items)
         /\ IsPageOf(JsonParse(cache[k].val).data, items, lo[1], lo[2])
  ELSE \E r \in items :
         k \in {PointKey(id) : id \in Spellings(r.id)} /\ JsonParse(cache[k].val) = WireRow(r)

\* C18: every cache entry carries an expiration, 60 seconds for a listing
\* entry and 300 seconds for a point entry, the longer one; and, expired
\* entries being removed, from some time on (when writes have stopped) no
\* stale entry is left: every entry of the cache holds what the store holds,
\* so every read returns the store's current value.
C18_StaleEntriesExpire ==
  /\ [](/\ ListTTL < PointTTL
        /\ \A k \in DOMAIN cache :
             cache[k].ttl = IF MatchesItemsStar(k) THEN ListTTL ELSE PointTTL)
  /\ <>[](\A k \in DOMAIN cache : Fresh(k))

\* All requests are answered and a stale entry is still cached, yet to expire.
C18_Witness ==
  /\ issued = MaxReqs /\ \A p \in Procs : pc[p] = "idle"
  /\ \E k \in DOMAIN cache : ~Fresh(k) /\ cache[k].ttl > 0

\* C19: every items request that is in flight is eventually answered, on
\* every path (the validators refuse it at arrival; not found; a store or a
\* cache call fails; success), every store and cache call returning or
\* failing; and it is answered once: the step that ends a request sends its
\* response, and no other step of a handler sends one.
C19_EveryRequestIsAnsweredOnce ==
  /\ \A p \in Procs : [](InFlight(p) => <>(~InFlight(p)))
  /\ [][/\ \A p \in Procs :
             Answered(p) => (resp'.op = h[p].op /\ resp'.status \in {200, 201, 404, 500})
        /\ (issued' = issued /\ \A p \in Procs : ~Answered(p)) => resp' = resp
        /\ (issued' # issued /\ pc' = pc) => resp'.status = 400
        /\ (issued' # issued /\ pc' # pc) => resp' = resp]_vars

\* Requests were refused by the validators, and the last one ended on a
\* failed cache call after its store statement.
C19_Witness ==
  /\ \A p \in Procs : pc[p] = "idle"
  /\ issued = WideReqs
  /\ resp.status = 500 /\ CacheFailed(resp) /\ StoreCalls(resp) # {}

\* Another row of users holds the email or the username of a registration.
Taken(r) == \E u \in users : u.id # r.created /\ (u.email = r.email \/ u.username = r.username)

\* C20: a valid registration whose email or username is held by another user
\* is answered 409 and has created no user and no refresh token, also when
\* the other user was created by a registration running at the same time
\* (no store outage being met).
C20_TakenIsConflict ==
  (aresp.op = "register" /\ aresp.status # 400 /\ ~aresp.outage /\ Taken(aresp))
  => (aresp.status = 409 /\ aresp.created = NoUser /\ ~aresp.tokened)

\* No two rows of users share an email or a username.
UsersAreUnique ==
  \A u, v \in users : (u.email = v.email \/ u.username = v.username) => u = v

\* A registration whose SELECT finds the email or the username taken is
\* answered 409 by that step, which leaves users and refresh_tokens alone.
TakenAtSelectIsConflict ==
  [][\A p \in Procs :
       (apc[p] = "reg_select" /\ apc'[p] # apc[p] /\ ~aresp'.outage
          /\ ExistingUser(users, ah[p].email, ah[p].username) # {})
       => (aresp'.status = 409 /\ users' = users /\ tokens' = tokens)]_vars


\* The token a header carries: its words after the first space, up to the
\* next space.
Carried(hd) ==
  LET sp == {i \in DOMAIN hd : hd[i].word = " "}
  IN IF hd = NoText \/ sp = {} THEN <<>>
     ELSE LET a == CHOOSE i \in sp : \A j \in sp : i <= j
              b == IF \E j \in sp : j > a
                   THEN CHOOSE i \in sp : i > a /\ \A j \in sp : j > a => i <= j
                   ELSE Len(hd) + 1
          IN SubSeq(hd, a + 1, b - 1)

\* A token signed with JWT_SECRET that has not expired at t.
Genuine(token, t) ==
  /\ Len(token) = 1 /\ token[1].word = "jwt"
  /\ token[1].key = JwtSecret /\ token[1].exp > t

\* C21: authenticateToken calls next, with req.user the payload of the token,
\* only for a header that carries a token signed with JWT_SECRET and not
\* expired; a request without a token is answered 401, one with any other
\* token 403, and neither gets next called or req.user set.
C21_OnlyVerifiedTokensPass ==
  [][/\ \A p \in Procs :
          (apc[p] = "idle" /\ apc'[p] = "logout_delete")
            => /\ Genuine(Carried(ah'[p].header), clock)
               /\ ah'[p].next
               /\ ah'[p].user.claims = Carried(ah'[p].header)[1].claims
     /\ (apc' = apc /\ aresp' # aresp /\ aresp'.op = "logout")
          => /\ ~Genuine(Carried(aresp'.header), clock)
             /\ aresp'.status = IF Carried(aresp'.header) = <<>> THEN 401 ELSE 403
             /\ ~aresp'.next
             /\ aresp'.user = NoDecoded]_vars

\* One logout was refused 403 for a token of the service that has expired
\* while another, with a token still valid, is past the middleware.
C21_Witness ==
  /\ aresp.op = "logout" /\ aresp.status = 403
  /\ Carried(aresp.header) # <<>> /\ Carried(aresp.header)[1].key = JwtSecret
  /\ \E p \in Procs : apc[p] = "logout_delete" /\ ah[p].user.claims.id = 1


\* A refresh that arrived after a logout of the token's user was acknowledged.
RevokedRefresh(p) ==
  /\ ah[p].op = "refresh" /\ apc[p] # "idle" /\ apc'[p] = "idle"
  /\ ah[p].dead /\ ah[p].token \in revoked

C23_CountAndPageAreOneSnapshot ==
  [][\A p \in Procs :
       (pc[p] = "list_page" /\ pc'[p] = "list_setEx")
         => ParseInt(h[p].count)[1] = Cardinality(items)]_vars


\* A `database` listing answered for offset 0 with fewer rows than its limit
\* carries as many rows as its count says.
DatabaseListingCountsItsRows ==
  (resp.op = "list" /\ resp.status = 200 /\ Tag(resp.body) = "database"
     /\ resp.offset = 0 /\ resp.body.count < resp.limit)
  => resp.body.count = Len(resp.body.data)


\* A key of the form item:<id>.
IsPointKey(k) == Len(k) >= Len(Chars_item) /\ SubSeq(k, 1, Len(Chars_item)) = Chars_item

\* A key of the form items:<limit>:<offset>.
IsListKey(k) == \E lo \in ListParams : k = ListKey(lo[1], lo[2])

\* This step leaves every point entry whose key is not in K as it is.
KeepsPointEntries(K) ==
  \A k \in DOMAIN cache :
    (IsPointKey(k) /\ k \notin K) => (k \in DOMAIN cache' /\ cache'[k] = cache[k])

\* C24: no point key item:<id> matches 'items:*'; the bulk delete of the keys
\* scanned removes listing entries items:<limit>:<offset> only; no step of a
\* create changes a point entry, and no step of an update or a delete of id
\* changes a point entry other than item:<id>.
C24_BulkInvalidationSparesPointEntries ==
  /\ [](\A k \in DOMAIN cache :
          /\ IsPointKey(k) => ~MatchesItemsStar(k)
          /\ MatchesItemsStar(k) => IsListKey(k))
  /\ [][\A p \in Procs :
          (pc'[p] # pc[p]) =>
            /\ pc[p] \in {"post_del", "put_del", "delete_del"}
                 => \A k \in DOMAIN cache \ DOMAIN cache' : IsListKey(k) /\ ~IsPointKey(k)
            /\ (h[p].op = "post" \/ h'[p].op = "post") => KeepsPointEntries({})
            /\ h[p].op \in {"put", "delete"} => KeepsPointEntries({PointKey(h[p].id)})]_vars

\* A create has been acknowledged after it deleted the listing entries it
\* found, and the cache still holds a point entry.
C24_Witness ==
  /\ resp.op = "post" /\ resp.status = 201 /\ resp.keys # {}
  /\ \E i \in DOMAIN resp.log : resp.log[i].what = "delKeys" /\ resp.log[i].ok
  /\ \E k \in DOMAIN cache : IsPointKey(k)
  /\ \A k \in DOMAIN cache : ~MatchesItemsStar(k)


\* C30: an update or delete that changed its row in the store and whose
\* delete of the point key failed has gone on to scan the listing keys.
C30_ListingInvalidatedAfterPointDelFails ==
  (resp.op \in {"put", "delete"} /\ resp.row # NoBody
     /\ \E i \in DOMAIN resp.log : resp.log[i] = Call("cache", "del", FALSE))
  => \E j \in DOMAIN resp.log : resp.log[j].what = "keys"


\* C25: a response of GET /health is 200 and 'healthy' exactly when it
\* reports postgres and redis 'connected', and is 503 and 'degraded' whenever
\* it reports either 'disconnected'.
C25_HealthyIffBothConnected ==
  \A c \in 1..MaxConns :
    conns[c].at = "sent" =>
      /\ (conns[c].code = 200 /\ conns[c].status = "healthy")
           <=> (conns[c].postgres = "connected" /\ conns[c].redis = "connected")
      /\ (conns[c].postgres = "disconnected" \/ conns[c].redis = "disconnected")
           => (conns[c].status = "degraded" /\ conns[c].code = 503)

\* A response of GET /health whose ping returned PONG or threw is 200 and
\* 'healthy' exactly when it reports both services 'connected', 503 and
\* 'degraded' otherwise.
HealthyIffQueryAndPingSucceed ==
  [][\A c \in 1..MaxConns :
       (conns[c].at = "ping" /\ conns'[c].at = "sent"
          /\ (conns'[c].redis = "connected" \/ conns'[c].status = "degraded"))
       => /\ (conns'[c].code = 200 /\ conns'[c].status = "healthy")
               <=> (conns'[c].postgres = "connected" /\ conns'[c].redis = "connected")
          /\ conns'[c].code \in {200, 503}
          /\ conns'[c].code = 503 <=> conns'[c].status = "degraded"]_vars


\* C26: reconnectStrategy, asked with the retry count r, returns the delay
\* min(r * 100, 3000) for r from 0 to 10 and an Error for r above 10.  The
\* delays of one series of retries never decrease and never exceed 3000; the
\* client asks with no count above 11, and once it got the Error it makes no
\* further attempt.
C26_ReconnectStrategyTerminates ==
  /\ [](/\ rclient.retries <= 11
        /\ rclient.asked <= 11
        /\ rclient.delay <= 3000
        /\ rclient.state = "closed" => rclient.asked > 10)
  /\ [][/\ (rclient.state = "connecting" /\ rclient'.state = "waiting")
             => /\ rclient'.asked = rclient.retries /\ rclient.retries <= 10
                /\ rclient'.delay = (IF rclient.retries * 100 <= 3000 THEN rclient.retries * 100 ELSE 3000)
                /\ rclient'.delay >= rclient.delay
        /\ (rclient.state = "connecting" /\ rclient.retries <= 10) => rclient'.state # "closed"
        /\ rclient.state = "closed"
             => (rclient'.state = "closed" /\ rclient'.retries = rclient.retries
                   /\ rclient'.asked = rclient.asked)]_vars

\* The client has closed for good after eleven attempts in a row failed,
\* the last delay it waited being 1000 ms.
C26_Witness ==
  rclient.state = "closed" /\ rclient.asked = 11 /\ rclient.delay = 1000 /\ rclient.retries = 11


\* C27: the server listens only once the Redis client has connected and,
\* after that, the probe query has returned; when the client closes without
\* having connected, or the probe query fails, startServer calls
\* process.exit(1), and a process that has exited does nothing further: it
\* never listens.
C27_ListensOnlyAfterRedisThenProbe ==
  /\ [](boot = "listening" => (rclient.opened /\ pool.probed))
  /\ [](boot = "failed" => (exited.code = 1 /\ ~pool.probed))
  /\ [][/\ (pool'.probed /\ ~pool.probed) => (rclient.opened /\ boot' = "listening")
        /\ (boot = "redis" /\ rclient'.state = "closed") => (boot' = "failed" /\ exited'.code = 1)
        /\ (boot = "probe" /\ boot' # "probe" /\ ~pool'.probed) => (boot' = "failed" /\ exited'.code = 1)
        /\ (boot' = "listening" /\ boot # "listening") => boot = "probe"
        /\ exited.by # "none" => (boot' = boot /\ conns' = conns /\ exited' = exited)]_vars

\* The server listens, after a first connection attempt of the Redis client
\* had failed, and has answered a GET /health.
C27_Witness ==
  /\ boot = "listening" /\ rclient.asked = 0 /\ exited.by = "none"
  /\ \E c \in 1..MaxConns : conns[c].at = "sent" /\ conns[c].code = 200


\* C28: whatever signals arrive, redisClient.quit() is called only after
\* pool.end() has been, each of the two is called at most once, and the
\* process exits with code 0 only when both have returned and with code 1
\* only when one of them rejected (or startServer failed).
C28_ShutdownClosesEachOnce ==
  /\ rclient.quits > 0 => (pool.ends > 0 /\ pool.ending)
  /\ pool.ends <= 1
  /\ rclient.quits <= 1
  /\ exited.code = 0 => exited.by = "done"
  /\ exited.code = 1 => exited.by \in {"end", "quit", "startServer"}

\* With a single signal the pool is ended once, the client quit once and
\* after it, and the exit code is 0 exactly when both calls returned.
OneSignalClosesEachOnce ==
  Len(down) <= 1 =>
    /\ rclient.quits > 0 => (pool.ends > 0 /\ pool.ending)
    /\ pool.ends <= 1 /\ rclient.quits <= 1
    /\ exited.code = 0 => (exited.by = "done" /\ rclient.quits = 1 /\ pool.ends = 1)
    /\ exited.code = 1 => exited.by \in {"quit", "startServer"}


\* The requests that have entered metricsMiddleware and have not ended: the
\* response not sent, the connection not closed.
ActiveRequests == {c \in 1..MaxConns : conns[c].at \in {"query", "ping"} /\ conns[c].open}

\* C29: http_active_connections is the number of requests that have entered
\* metricsMiddleware and not ended, whether a request ended with its response
\* sent or with its connection closed; so it is never negative and is 0 when
\* no request is under way.
C29_GaugeCountsActiveRequests ==
  /\ gauge = Cardinality(ActiveRequests)
  /\ gauge >= 0
  /\ ActiveRequests = {} => gauge = 0

\* The gauge is never negative, and it is the number of requests whose
\* response has not been sent: a request whose connection was closed before
\* that stays counted.
GaugeCountsUnsentResponses ==
  /\ gauge >= 0
  /\ gauge = Cardinality({c \in 1..MaxConns : conns[c].at \in {"query", "ping", "lost"}})

=============================================================================
